---------------------------- MODULE Spec2Model ----------------------------
(***************************************************************************)
(* KIVI: occupancy grid, AABB collision and slide resolution, velocity     *)
(* integration and the per-frame update loop of Scene.                     *)
(*                                                                         *)
(* Lengths are fixed-point integers: one world unit is Scale model units,  *)
(* so 0.05 world units is 1.  Velocities are model units per time quantum  *)
(* and a frame's delta is a whole number of quanta.                        *)
(***************************************************************************)
EXTENDS Integers, Sequences, FiniteSets, TLC

Scale == 2 * 10          \* model units per world unit (0.05 = 1)
Half == Scale \div 2     \* 0.5 world units

\* ------------------------------------------------------------------ bounds
GridSize == 3            \* grid.size (cells per side on X and Z)
MaxRefs == 4             \* game objects ever created in one run
MaxTicks == 2            \* frames simulated in one run
MaxCalls == 3            \* script / tooling calls that change something in one run
MaxFallTicks == 4        \* frames simulated in one run of a fall
MaxLoads == 3            \* scene switches and hot reloads in one run

\* ------------------------------------------------------- program constants
CellSize == 1            \* grid.cellSize default
GroundedEps == 4         \* 0.2: checkGrounded threshold
SnapEps == 2             \* 0.1: ground-snap threshold
ScanTop == 10            \* getGroundY scan start

\* An optional value: None (null / undefined) or Some(v)
None == <<>>
Some(v) == <<v>>
Get(o) == o[1]

Abs(n) == IF n < 0 THEN -n ELSE n
Max(a, b) == IF a >= b THEN a ELSE b
Min(a, b) == IF a <= b THEN a ELSE b
\* Math.floor of the fixed-point number n, as a whole number of world units
Floor(n) == n \div Scale

Vec(a, b, c) == [x |-> a, y |-> b, z |-> c]

\* ------------------------------------------------------------------ grid.js
centerOffset == GridSize \div 2

gridToWorld(gx, gy, gz) ==
    Vec((gx - centerOffset) * CellSize * Scale,
        gy * CellSize * Scale,
        (gz - centerOffset) * CellSize * Scale)

\* Math.round(v): nearest integer, halves towards +infinity
Round(n) == (n + Half) \div Scale

\* (a worldToGrid that forgets the centre offset)
worldToGridNoOffset(p) ==
    <<Round(p.x \div CellSize), Round(p.y \div CellSize), Round(p.z \div CellSize)>>

worldToGrid(p) ==
    <<Round(p.x \div CellSize) + centerOffset,
      Round(p.y \div CellSize),
      Round(p.z \div CellSize) + centerOffset>>

\* (an isInBounds that lets a negative gridY through)
isInBoundsNoFloor(gx, gy, gz) ==
    /\ gx >= 0 /\ gx < GridSize
    /\ gz >= 0 /\ gz < GridSize

isInBounds(gx, gy, gz) ==
    gx >= 0 /\ gx < GridSize /\ gy >= 0 /\ gz >= 0 /\ gz < GridSize

\* cells is a function from cell keys <<gx,gy,gz>> to the occupying block
isOccupied(cs, gx, gy, gz) == <<gx, gy, gz>> \in DOMAIN cs

setCell(cs, key, b) ==
    [k \in DOMAIN cs \cup {key} |-> IF k = key THEN b ELSE cs[k]]

clearCell(cs, key) == [k \in DOMAIN cs \ {key} |-> cs[k]]

\* (a placeBlock that never registers the block in the cells)
placeBlockUntracked(cs, c, b, trackInGrid) ==
    IF ~isInBounds(c[1], c[2], c[3])
    THEN [cells |-> cs, block |-> None]
    ELSE LET w == gridToWorld(c[1], c[2], c[3])
         IN  [cells |-> cs,
              block |-> Some([grid |-> c, pos |-> [w EXCEPT !.y = w.y + Half]])]

\* Grid.placeBlock of block b on cell c: the cells afterwards and the block
\* returned (None for null).  The block sits at the cell's world position,
\* half a cell up; options.trackInGrid decides whether the cell takes it.
placeBlock(cs, c, b, trackInGrid) ==
    IF ~isInBounds(c[1], c[2], c[3])
    THEN [cells |-> cs, block |-> None]
    ELSE LET w == gridToWorld(c[1], c[2], c[3])
         IN  [cells |-> IF trackInGrid THEN setCell(cs, c, b) ELSE cs,
              block |-> Some([grid |-> c, pos |-> [w EXCEPT !.y = w.y + Half]])]

\* ------------------------------------------------------------- collision.js
checkCollision(cs, p, size, excludeGround) ==
    LET minGridX == Floor(p.x - size.x \div 2 + centerOffset * Scale + Half)
        maxGridX == Floor(p.x + size.x \div 2 + centerOffset * Scale + Half)
        minGridY == IF excludeGround THEN Floor(p.y)
                    ELSE Floor(p.y - size.y \div 2)
        maxGridY == Floor(p.y + size.y \div 2)
        minGridZ == Floor(p.z - size.z \div 2 + centerOffset * Scale + Half)
        maxGridZ == Floor(p.z + size.z \div 2 + centerOffset * Scale + Half)
    IN  \E k \in DOMAIN cs :
            /\ minGridX <= k[1] /\ k[1] <= maxGridX
            /\ minGridY <= k[2] /\ k[2] <= maxGridY
            /\ minGridZ <= k[3] /\ k[3] <= maxGridZ

getGroundY(cs, p) ==
    LET gridX == Floor(p.x + centerOffset * Scale + Half)
        gridZ == Floor(p.z + centerOffset * Scale + Half)
        startY == Max(Floor(p.y), ScanTop)
        col == {k[2] : k \in {c \in DOMAIN cs :
                    c[1] = gridX /\ c[3] = gridZ /\ c[2] >= 0 /\ c[2] <= startY}}
    IN  IF col = {} THEN 0
        ELSE (CHOOSE y \in col : \A w \in col : w <= y) * Scale + Scale

checkGrounded(cs, p, size) ==
    Abs((p.y - size.y \div 2) - getGroundY(cs, p)) < GroundedEps

\* scene.gridBounds is None when the grid has no boundary
calculateGridBounds ==
    LET min == -centerOffset * Scale - Half
        max == GridSize * Scale - centerOffset * Scale - Half
    IN  [minX |-> min, maxX |-> max, minZ |-> min, maxZ |-> max]

checkOutOfBounds(bounds, p, size) ==
    IF bounds = None THEN FALSE
    ELSE \/ p.x - size.x \div 2 < Get(bounds).minX
         \/ p.x + size.x \div 2 > Get(bounds).maxX
         \/ p.z - size.z \div 2 < Get(bounds).minZ
         \/ p.z + size.z \div 2 > Get(bounds).maxZ

\* (a clamp of the centre alone, the half extents left out)
clampCentre(bounds, p, size) ==
    IF bounds = None THEN p
    ELSE [p EXCEPT
            !.x = Max(Get(bounds).minX, Min(Get(bounds).maxX, p.x)),
            !.z = Max(Get(bounds).minZ, Min(Get(bounds).maxZ, p.z))]

clampToBounds(bounds, p, size) ==
    IF bounds = None THEN p
    ELSE [p EXCEPT
            !.x = Max(Get(bounds).minX + size.x \div 2,
                      Min(Get(bounds).maxX - size.x \div 2, p.x)),
            !.z = Max(Get(bounds).minZ + size.z \div 2,
                      Min(Get(bounds).maxZ - size.z \div 2, p.z))]

\* (a resolve that reverts the whole move when the tentative position collides)
slideAxesCombined(cs, p, last, size, excludeGround) ==
    IF checkCollision(cs, p, size, excludeGround) THEN last ELSE p

\* (a resolve that stops a colliding move halfway between the two positions)
slideAxesHalfway(cs, p, last, size, excludeGround) ==
    IF checkCollision(cs, p, size, excludeGround)
    THEN Vec((last.x + p.x) \div 2, (last.y + p.y) \div 2,
             (last.z + p.z) \div 2)
    ELSE p

\* The per-axis slide of resolveCollision (lines 109-129): the position after
\* the three single-axis tests.
slideAxes(cs, p, last, size, excludeGround) ==
    IF checkCollision(cs, p, size, excludeGround)
    THEN [x |-> IF checkCollision(cs, [last EXCEPT !.x = p.x], size, excludeGround)
                THEN last.x ELSE p.x,
          y |-> IF checkCollision(cs, [last EXCEPT !.y = p.y], size, excludeGround)
                THEN last.y ELSE p.y,
          z |-> IF checkCollision(cs, [last EXCEPT !.z = p.z], size, excludeGround)
                THEN last.z ELSE p.z]
    ELSE p

\* (a resolve that reports a correction whatever it did)
resolveAlwaysReports(cs, bounds, p, last, size, excludeGround) ==
    LET slid == slideAxes(cs, p, last, size, excludeGround)
        oob == checkOutOfBounds(bounds, slid, size)
    IN  [pos |-> IF oob THEN clampToBounds(bounds, slid, size) ELSE slid,
         had |-> TRUE]

\* resolveCollision: the resolved position and the hadCollision result
resolveCollision(cs, bounds, p, last, size, excludeGround) ==
    LET slid == slideAxes(cs, p, last, size, excludeGround)
        oob == checkOutOfBounds(bounds, slid, size)
    IN  [pos |-> IF oob THEN clampToBounds(bounds, slid, size) ELSE slid,
         had |-> checkCollision(cs, p, size, excludeGround) \/ oob]



\* the extents checkGameObjectCollision uses (lines 149-150): bounds is never
\* assigned to a game object; collider.size where a script attached a
\* collider; otherwise size or the default, both 1 x 1 x 1
extentOf(o) ==
    IF o.collider # None THEN Get(o.collider) ELSE Vec(Scale, Scale, Scale)

\* (an overlap test on the X and Z axes only)
pairCollisionFlat(p1, s1, p2, s2) ==
    IF p1 = None \/ p2 = None
    THEN [colliding |-> FALSE, penetration |-> Vec(0, 0, 0)]
    ELSE LET dx == Abs(Get(p1).x - Get(p2).x)
             dy == Abs(Get(p1).y - Get(p2).y)
             dz == Abs(Get(p1).z - Get(p2).z)
             colliderX == (s1.x + s2.x) \div 2
             colliderY == (s1.y + s2.y) \div 2
             colliderZ == (s1.z + s2.z) \div 2
         IN  [colliding |-> dx < colliderX /\ dz < colliderZ,
              penetration |-> Vec(colliderX - dx, colliderY - dy,
                                  colliderZ - dz)]

\* checkGameObjectCollision on the two positions (null when missing) and the
\* two extents
pairCollision(p1, s1, p2, s2) ==
    IF p1 = None \/ p2 = None
    THEN [colliding |-> FALSE, penetration |-> Vec(0, 0, 0)]
    ELSE LET dx == Abs(Get(p1).x - Get(p2).x)
             dy == Abs(Get(p1).y - Get(p2).y)
             dz == Abs(Get(p1).z - Get(p2).z)
             colliderX == (s1.x + s2.x) \div 2
             colliderY == (s1.y + s2.y) \div 2
             colliderZ == (s1.z + s2.z) \div 2
         IN  [colliding |-> dx < colliderX /\ dy < colliderY /\ dz < colliderZ,
              penetration |-> Vec(colliderX - dx, colliderY - dy,
                                  colliderZ - dz)]

checkGameObjectCollision(obj1, obj2) ==
    pairCollision(obj1.position, extentOf(obj1), obj2.position, extentOf(obj2))

\* --------------------------------------------------------------- physics.js
\* Horizontal speeds are whole hundredths of a world unit per second and an
\* applyForce delta is a whole number of fifths of a second, so that the
\* defaults of lines 8-10 are whole numbers per delta quantum.
VScale == 10 * 10
DeltaPerSecond == 10 \div 2
MaxSpeed == 3 * VScale                          \* maxSpeed 3
Acceleration == (15 * VScale) \div DeltaPerSecond   \* acceleration 15
Friction == (8 * VScale) \div DeltaPerSecond        \* friction 8
SpeedEps == VScale \div 100                     \* 0.01

\* new VelocityPhysics({gravity, maxFallSpeed}): velocity starts at rest
VelocityPhysics(g, mfs) ==
    [velocity |-> Vec(0, 0, 0), gravity |-> g, maxFallSpeed |-> mfs,
     maxSpeed |-> MaxSpeed, acceleration |-> Acceleration,
     friction |-> Friction]

\* Math.sqrt(velocity.x ** 2 + velocity.z ** 2), to the whole number below
RECURSIVE SqrtBetween(_, _, _)
SqrtBetween(q, lo, hi) ==
    IF lo = hi THEN lo
    ELSE LET mid == (lo + hi + 1) \div 2
         IN  IF mid * mid <= q THEN SqrtBetween(q, mid, hi)
             ELSE SqrtBetween(q, lo, mid - 1)
\* (the radicand and the upper end of the search are computed once)
horizontalSpeed(v) ==
    CHOOSE r \in {SqrtBetween(q, 0, hi) : q \in {v.x * v.x + v.z * v.z},
                                          hi \in {Abs(v.x) + Abs(v.z)}} : TRUE
\* a / b for quotients that are whole, rounded towards zero otherwise
Quot(a, b) == IF a < 0 THEN -((-a) \div b) ELSE a \div b

\* (a clamp that rescales the X component only)
clampSpeedX(ph) ==
    LET currentSpeed == horizontalSpeed(ph.velocity)
    IN  IF currentSpeed > ph.maxSpeed
        THEN [ph EXCEPT !.velocity.x = Quot(@ * ph.maxSpeed, currentSpeed)]
        ELSE ph

\* clampSpeed: (velocity / currentSpeed) * maxSpeed on both components
clampSpeed(ph) ==
    LET currentSpeed == horizontalSpeed(ph.velocity)
    IN  IF currentSpeed > ph.maxSpeed
        THEN [ph EXCEPT !.velocity.x = Quot(@ * ph.maxSpeed, currentSpeed),
                        !.velocity.z = Quot(@ * ph.maxSpeed, currentSpeed)]
        ELSE ph

\* (a friction without the Math.max(0, ...) on the ratio)
applyFrictionUnclamped(ph, delta) ==
    LET currentSpeed == horizontalSpeed(ph.velocity)
        frictionAmount == ph.friction * delta
        left == currentSpeed - frictionAmount
    IN  IF currentSpeed > SpeedEps
        THEN [ph EXCEPT !.velocity.x = Quot(@ * left, currentSpeed),
                        !.velocity.z = Quot(@ * left, currentSpeed)]
        ELSE [ph EXCEPT !.velocity.x = 0, !.velocity.z = 0]

\* (a friction without the snap to zero at small speeds)
applyFrictionNoSnap(ph, delta) ==
    LET currentSpeed == horizontalSpeed(ph.velocity)
        frictionAmount == ph.friction * delta
        left == Max(0, currentSpeed - frictionAmount)
    IN  IF currentSpeed > SpeedEps
        THEN [ph EXCEPT !.velocity.x = Quot(@ * left, currentSpeed),
                        !.velocity.z = Quot(@ * left, currentSpeed)]
        ELSE ph

\* applyFriction: both components times
\* Math.max(0, (currentSpeed - frictionAmount) / currentSpeed)
applyFriction(ph, delta) ==
    LET currentSpeed == horizontalSpeed(ph.velocity)
        frictionAmount == ph.friction * delta
        left == Max(0, currentSpeed - frictionAmount)
    IN  IF currentSpeed > SpeedEps
        THEN [ph EXCEPT !.velocity.x = Quot(@ * left, currentSpeed),
                        !.velocity.z = Quot(@ * left, currentSpeed)]
        ELSE [ph EXCEPT !.velocity.x = 0, !.velocity.z = 0]

\* applyForce: accelerate along the normalized direction, or apply friction
\* when the direction is zero; then clampSpeed
applyForce(ph, forceX, forceZ, delta) ==
    IF forceX # 0 \/ forceZ # 0
    THEN LET len == horizontalSpeed(Vec(forceX, 0, forceZ))
         IN  clampSpeed([ph EXCEPT
                 !.velocity.x = @ + Quot(forceX * ph.acceleration * delta, len),
                 !.velocity.z = @ + Quot(forceZ * ph.acceleration * delta, len)])
    ELSE clampSpeed(applyFriction(ph, delta))

\* (an updatePosition without the terminal fall speed)
updatePositionUnclamped(ph, p, dt, applyGravity) ==
    LET vy == IF ph.gravity # 0 /\ applyGravity
              THEN ph.velocity.y + ph.gravity * dt
              ELSE ph.velocity.y
        v == [ph.velocity EXCEPT !.y = vy]
    IN  [physics |-> [ph EXCEPT !.velocity = v],
         pos |-> Vec(p.x + v.x * dt, p.y + v.y * dt, p.z + v.z * dt)]

\* updatePosition: the physics component and the position after the call
updatePosition(ph, p, dt, applyGravity) ==
    LET vy == IF ph.gravity # 0 /\ applyGravity
              THEN Max(ph.velocity.y + ph.gravity * dt, ph.maxFallSpeed)
              ELSE ph.velocity.y
        v == [ph.velocity EXCEPT !.y = vy]
    IN  [physics |-> [ph EXCEPT !.velocity = v],
         pos |-> Vec(p.x + v.x * dt, p.y + v.y * dt, p.z + v.z * dt)]

stopVertical(ph) == [ph EXCEPT !.velocity.y = 0]

\* ----------------------------------------------------------- scene: state
VARIABLES
    cells,       \* grid.cells: cell key -> id of the occupying block
    blocks,      \* scene.blocks: ids of the blocks in the scene
    heap,        \* game object reference -> game object (the loop keeps a
                 \* reference to an object after destroy removed it from the map)
    map,         \* scene.gameObjects: the Map's entry list, in insertion order;
                 \* a deleted entry stays as an empty slot until the list is idle
    gridBounds,  \* scene.gridBounds
    loading,     \* awaits in flight: script imports and scene fetches
    pc,          \* position of update(): "idle" or the step about to run
    it,          \* the Map iterator's index into map
    cur,         \* reference of the game object the loop is visiting
    delta,       \* this frame's delta
    ticks,       \* frames started
    log,         \* history: steps performed in the current visit, in order
    visited,     \* history: references visited in the current frame
    aborted,     \* history: the current/last frame ended by an exception
    hist,        \* history: values sampled during the current visit
    frame,       \* history: what hooks created and destroyed in the current frame
    calls        \* history: script / tooling calls that changed something

sceneVars == <<cells, blocks, map, gridBounds, loading>>
loopVars == <<pc, it, cur, delta, ticks>>
histVars == <<log, visited, aborted, hist, frame>>
vars == <<cells, blocks, heap, map, gridBounds, loading, pc, it, cur, delta,
          ticks, log, visited, aborted, hist, frame, calls>>

\* ----------------------------------------------------------- scene: inputs
GroundId == "ground"               \* id of the scene file's floor object
Ids == {"a", "b", "c"}             \* ids of the other game objects
DeltaSet == {1, 2}
Gravity == -2                      \* player.js gravity, per quantum
MaxFall == -6                      \* player.js maxFallSpeed
JumpForce == 4                     \* player.js jumpForce
PlayerSize == Vec(16, 20, 16)      \* player.js collider 0.8 x 1.0 x 0.8

\* velocities a script hook leaves on the physics component
VelChoices == {Vec(8, 0, 0), Vec(-8, -3, 8), Vec(0, 1, 0)}

\* the floor object of a scene file: a slab with one raised block, or a
\* single block
Layouts == {<< <<0, 0, 0>>, <<1, 0, 0>>, <<2, 0, 0>>, <<2, 1, 0>> >>,
            << <<1, 0, 1>> >>}

\* the gameObjects array of a scene file: the floor alone, or the floor
\* followed by a player, a brick, a ball and an entry that repeats an id
Scenes ==
    {<<[id |-> GroundId, script |-> "none", blocks |-> L]>> : L \in Layouts}
    \cup
    {<<[id |-> GroundId, script |-> "none",
        blocks |-> << <<0, 0, 0>>, <<1, 0, 0>> >>],
       [id |-> "a", script |-> "player", blocks |-> << <<1, 1, 0>> >>],
       [id |-> "b", script |-> "none", blocks |-> << <<2, 0, 2>> >>],
       [id |-> "c", script |-> "ball", blocks |-> << <<0, 1, 0>> >>],
       [id |-> "a", script |-> "none", blocks |-> << <<2, 0, 0>> >>]>>}

\* a scene file without a floor: a player and a ball
ReloadScene ==
    <<[id |-> "a", script |-> "player", blocks |-> << <<1, 1, 0>> >>],
      [id |-> "c", script |-> "ball", blocks |-> << <<0, 1, 0>> >>]>>

\* the scene files a scene switch can load
SceneFiles == Scenes \cup {ReloadScene}

\* game object definitions handed to instantiate: a player on the slab, a
\* two-block ball, a spawned static block beside the player, and a player
\* whose only block lies outside the grid
InstData ==
    {[id |-> "a", script |-> "player", blocks |-> << <<1, 1, 0>> >>],
     [id |-> "b", script |-> "ball", blocks |-> << <<0, 1, 0>>, <<0, 2, 0>> >>],
     [id |-> "b", script |-> "none", blocks |-> << <<0, 1, 0>> >>],
     [id |-> "b", script |-> "player", blocks |-> << <<GridSize, 0, 0>> >>]}

EmptyMap == << >>
EmptyCells == [k \in {} |-> <<0, 0>>]
\* the state load starts from, after clear()
EmptyScene ==
    [heap |-> << >>, map |-> EmptyMap, cells |-> EmptyCells, blocks |-> {},
     loading |-> {}]
Tomb == [id |-> "", ref |-> 0]

\* ------------------------------------------------------- scene: Map helpers
Live(m) == {i \in 1..Len(m) : m[i] # Tomb}
has(m, id) == \E i \in Live(m) : m[i].id = id
get(m, id) == m[CHOOSE i \in Live(m) : m[i].id = id].ref
LiveRefs(m) == {m[i].ref : i \in Live(m)}
\* (a delete that closes the gap, shifting later entries under the iterator)
deleteSplice(m, id) == SelectSeq(m, LAMBDA e : e.id # id)
\* Map.prototype.delete: the entry becomes an empty slot, later entries keep
\* their place, so a running iterator neither skips nor repeats an entry
delete(m, id) == [i \in 1..Len(m) |-> IF m[i].id = id THEN Tomb ELSE m[i]]
\* Map.prototype.set of a new key: appended at the end of the entry list
set(m, id, ref) == Append(m, [id |-> id, ref |-> ref])
\* the entry list with the empty slots dropped (no iterator is running)
compact(m) == SelectSeq(m, LAMBDA e : e # Tomb)
\* the Map iterator's next index after i, or 0 when the entries are exhausted
nextIndex(m, i) ==
    IF \E j \in Live(m) : j > i
    THEN CHOOSE j \in Live(m) : j > i /\ \A k \in Live(m) : k > i => j <= k
    ELSE 0


\* ------------------------------------------------- scene: blocks and objects
\* Scene.addBlock / Grid.placeBlock over a block list: st.cells is the grid,
\* st.placed the blocks created so far for game object ref.  A block out of
\* bounds is not created; a tracked block takes its cell, whoever held it.
RECURSIVE addBlocks(_, _, _, _, _)
addBlocks(st, ref, bl, trackInGrid, withOffset) ==
    IF bl = << >> THEN st
    ELSE LET c == Head(bl)
             n == Len(st.placed) + 1
             r == placeBlock(st.cells, c, <<ref, n>>, trackInGrid)
             st2 == IF r.block # None
                    THEN LET wp == Get(r.block).pos
                             anchor == IF n = 1 THEN wp ELSE st.placed[1].pos
                             b == [grid |-> c, pos |-> wp,
                                   offset |-> IF withOffset
                                              THEN Some(Vec(wp.x - anchor.x,
                                                            wp.y - anchor.y,
                                                            wp.z - anchor.z))
                                              ELSE None]
                         IN  [cells |-> r.cells,
                              placed |-> Append(st.placed, b)]
                    ELSE st
         IN  addBlocks(st2, ref, Tail(bl), trackInGrid, withOffset)

\* the pending import of one loadScript(id, scriptPath) call; the call is
\* told apart from other calls with the same arguments by the reference of
\* the game object it was made for
importOf(d, ref) == [id |-> d.id, script |-> d.script, call |-> ref]

\* the game object entry load / instantiate stores in the Map
newGameObject(d, placed) ==
    [id |-> d.id, script |-> d.script,
     scriptInstance |-> "none",     \* the script module, once imported
     blocks |-> placed,
     position |-> IF placed = << >> THEN None ELSE Some(placed[1].pos),
     physics |-> None, collider |-> None,
     isGrounded |-> FALSE,          \* undefined until the loop sets it: falsy
     lastValidPosition |-> None,
     inits |-> 0]                   \* history: onInit calls on this object

blockIds(ref, o) == {<<ref, n>> : n \in 1..Len(o.blocks)}

\* (an instantiate without the duplicate-id check)
instantiateUnchecked(d) ==
    /\ Len(heap) < MaxRefs
    /\ LET ref == Len(heap) + 1
           st == addBlocks([cells |-> cells, placed |-> << >>], ref, d.blocks,
                           d.script = "none", FALSE)
           o == newGameObject(d, st.placed)
       IN  /\ heap' = Append(heap, o)
           /\ map' = set(delete(map, d.id), d.id, ref)
           /\ cells' = st.cells
           /\ blocks' = blocks \cup blockIds(ref, o)
           /\ loading' = IF d.script = "none" THEN loading
                         ELSE loading \cup {importOf(d, ref)}
    /\ UNCHANGED gridBounds

\* Scene.instantiate up to its first await (the script import); a duplicate
\* id returns null before anything is created
instantiate(d) ==
    /\ IF has(map, d.id)
       THEN UNCHANGED <<heap, map, cells, blocks, loading>>
       ELSE LET ref == Len(heap) + 1
                st == addBlocks([cells |-> cells, placed |-> << >>], ref,
                                d.blocks, d.script = "none", FALSE)
                o == newGameObject(d, st.placed)
            IN  /\ Len(heap) < MaxRefs
                /\ heap' = Append(heap, o)
                /\ map' = set(map, d.id, ref)
                /\ cells' = st.cells
                /\ blocks' = blocks \cup blockIds(ref, o)
                /\ loading' = IF d.script = "none" THEN loading
                              ELSE loading \cup
                                     {importOf(d, ref)}
    /\ UNCHANGED gridBounds

\* history of an instantiate call: the reference a hook's call created, or
\* the id the call rejected
noteInstantiate(d, fromHook) ==
    IF has(map, d.id)
    THEN [frame EXCEPT !.rejected = @ \cup {d.id}]
    ELSE IF fromHook THEN [frame EXCEPT !.spawned = @ \cup {Len(heap) + 1}]
    ELSE frame

\* (a destroy that removes the blocks and leaves the Map entry)
destroyKeepsEntry(id) ==
    /\ has(map, id)
    /\ LET ref == get(map, id)
           o == heap[ref]
           keys == {o.blocks[n].grid : n \in 1..Len(o.blocks)}
       IN  /\ blocks' = blocks \ blockIds(ref, o)
           /\ cells' = [k \in DOMAIN cells \ keys |-> cells[k]]
           /\ map' = map
    /\ UNCHANGED <<gridBounds, loading>>

\* (a destroy that leaves the grid cells of the blocks in place)
destroyKeepsCells(id) ==
    /\ has(map, id)
    /\ LET ref == get(map, id)
           o == heap[ref]
       IN  /\ blocks' = blocks \ blockIds(ref, o)
           /\ cells' = cells
           /\ map' = delete(map, id)
    /\ UNCHANGED <<gridBounds, loading>>

\* Scene.destroy of an id the Map holds
destroy(id) ==
    /\ has(map, id)
    /\ LET ref == get(map, id)
           o == heap[ref]
           keys == {o.blocks[n].grid : n \in 1..Len(o.blocks)}
       IN  /\ blocks' = blocks \ blockIds(ref, o)
           /\ cells' = [k \in DOMAIN cells \ keys |-> cells[k]]
           /\ map' = delete(map, id)
    /\ UNCHANGED <<gridBounds, loading>>

\* Scene.load after clear(): the gameObjects array of the scene file, entry by
\* entry, up to the await of loadScripts
RECURSIVE load(_, _)
load(st, objs) ==
    IF objs = << >> THEN st
    ELSE IF has(st.map, Head(objs).id) THEN load(st, Tail(objs))
    ELSE LET d == Head(objs)
             ref == Len(st.heap) + 1
             ab == addBlocks([cells |-> st.cells, placed |-> << >>], ref,
                             d.blocks, d.script = "none", TRUE)
             o == newGameObject(d, ab.placed)
         IN  load([heap |-> Append(st.heap, o),
                   map |-> set(st.map, d.id, ref),
                   cells |-> ab.cells,
                   blocks |-> st.blocks \cup blockIds(ref, o),
                   loading |-> IF d.script = "none" THEN st.loading
                               ELSE st.loading \cup
                                      {importOf(d, ref)}],
                  Tail(objs))

\* ------------------------------------------------------------- scene: Init
\* The state after new Scene(config) and the synchronous part of load() of a
\* scene file; the scripts are still being imported and no frame has run yet.
NoHist == [grav |-> None,        \* applyGravity handed to updatePosition
           start |-> None,       \* position when the visit began
           tentative |-> None,   \* position handed to resolve
           lvpIn |-> None,       \* lastValidPosition handed to resolve
           sample |-> None,      \* latest checkGrounded result of the visit
           had |-> None,         \* what the latest resolve returned
           resolved |-> [r \in 1..MaxRefs |-> None]]
                                 \* per object: position after its latest resolve

NoFrame == [spawned |-> {},     \* references instantiated by a hook
            removed |-> {},     \* references destroyed by a hook
            skipped |-> {},     \* ... of these, the ones not yet visited then
            selfDestroyed |-> {},   \* ... and by their own onUpdate
            rejected |-> {},    \* instantiate calls that returned null
            cleared |-> FALSE,  \* clear() ran inside the loop
            onDestroyed |-> {}, \* references whose onDestroy hook was invoked
            started |-> << >>,  \* scene files load() was called with, in order
            overlap |-> FALSE]  \* a load() call began while another was pending

InitWith(files) ==
    /\ \E scene \in files :
         LET st == load(EmptyScene, scene)
         IN  /\ heap = st.heap
             /\ map = st.map
             /\ cells = st.cells
             /\ blocks = st.blocks
             /\ loading = st.loading
    /\ gridBounds = Some(calculateGridBounds)
    /\ calls = 0
    /\ pc = "idle" /\ it = 0 /\ cur = 0 /\ delta = 0 /\ ticks = 0
    /\ log = << >> /\ visited = {} /\ aborted = FALSE
    /\ hist = NoHist
    /\ frame = NoFrame

Init == InitWith(Scenes)

\* the same, for the scene file without a floor
InitReload == InitWith({ReloadScene})


\* ---------------------------------------------------- scene: script loading
\* the fetch of a scene file that switchScene / loadFromURL awaits
SceneFetch == [id |-> "", script |-> "scene", call |-> 0]

\* Scene.clear, first loop: the game objects in the Map whose script instance
\* defines onDestroy (scripts/player.js does, scripts/ball.js does not)
onDestroyCalls(m) ==
    {r \in LiveRefs(m) : heap[r].scriptInstance = "player"}

\* Scene.clear: the block list, the Map and the grid cells are emptied.  A
\* running Map iterator finds no further entry.
clear ==
    /\ blocks' = {}
    /\ map' = [i \in 1..Len(map) |-> Tomb]
    /\ cells' = EmptyCells

\* Scene.loadFromURL once the fetch resolved: load() clears the scene and
\* registers the game objects of the file; runs between frames
SceneLoaded ==
    /\ pc = "idle"
    /\ SceneFetch \in loading
    /\ \E scene \in SceneFiles :
          /\ Len(heap) + Len(scene) <= MaxRefs
          /\ LET st == load([heap |-> heap, map |-> EmptyMap,
                             cells |-> EmptyCells, blocks |-> {},
                             loading |-> loading \ {SceneFetch}], scene)
             IN  /\ heap' = st.heap
                 /\ map' = st.map
                 /\ cells' = st.cells
                 /\ blocks' = st.blocks
                 /\ loading' = st.loading
    /\ gridBounds' = Some(calculateGridBounds)
    /\ UNCHANGED <<loopVars, histVars, calls>>

\* what the script's onInit leaves on the game object (scripts/player.js,
\* scripts/ball.js)
onInit(o, script) ==
    IF script = "player"
    THEN [o EXCEPT !.physics = Some(VelocityPhysics(Gravity, MaxFall)),
                   !.collider = Some(PlayerSize),
                   !.inits = @ + 1]
    ELSE [o EXCEPT !.inits = @ + 1]

\* Scene.loadScript after its import resolved; runs between frames.  When the
\* id has left the Map the TypeError is caught and nothing changes.
ScriptLoaded(l) ==
    /\ pc = "idle"
    /\ l \in loading /\ l # SceneFetch
    /\ loading' = loading \ {l}
    /\ heap' = IF has(map, l.id)
               THEN [heap EXCEPT ![get(map, l.id)] =
                        onInit([@ EXCEPT !.scriptInstance = l.script], l.script)]
               ELSE heap
    /\ UNCHANGED <<cells, blocks, map, gridBounds, loopVars, histVars, calls>>

\* --------------------------------------------------------- Scene.update loop
Steps == <<"onUpdate", "updatePosition", "resolve", "lastValid", "snap",
           "onLateUpdate", "sync">>

\* mutant: collision resolution placed before the velocity integration
StepAfterResolveFirst(step) ==
    CASE step = "onUpdate" -> "resolve"
      [] step = "resolve" -> "updatePosition"
      [] step = "updatePosition" -> "lastValid"
      [] step = "lastValid" -> "snap"
      [] step = "snap" -> "onLateUpdate"
      [] step = "onLateUpdate" -> "sync"
      [] step = "sync" -> "next"

\* the statement order of the loop body (lines 650-722)
StepAfter(step) ==
    CASE step = "onUpdate" -> "updatePosition"
      [] step = "updatePosition" -> "resolve"
      [] step = "resolve" -> "lastValid"
      [] step = "lastValid" -> "snap"
      [] step = "snap" -> "onLateUpdate"
      [] step = "onLateUpdate" -> "sync"
      [] step = "sync" -> "next"

\* update() is called by the animation frame; at most n frames are simulated
TickBeginUpTo(n) ==
    /\ pc = "idle"
    /\ ticks < n
    /\ \E dt \in DeltaSet : delta' = dt
    /\ ticks' = ticks + 1
    /\ map' = compact(map)
    /\ pc' = "next" /\ it' = 0 /\ cur' = 0
    /\ log' = << >> /\ visited' = {} /\ aborted' = FALSE
    /\ hist' = [NoHist EXCEPT !.resolved = hist.resolved]
    /\ frame' = NoFrame
    /\ UNCHANGED <<cells, blocks, heap, gridBounds, loading, calls>>

TickBegin == TickBeginUpTo(MaxTicks)

\* for (const [id, gameObject] of this.gameObjects.entries()): the iterator's
\* next entry, or the end of the loop
NextEntity ==
    /\ pc = "next"
    /\ LET j == nextIndex(map, it)
       IN  IF j = 0
           THEN /\ pc' = "idle" /\ cur' = 0
                /\ UNCHANGED <<it, visited, hist>>
           ELSE /\ pc' = "onUpdate" /\ it' = j /\ cur' = map[j].ref
                /\ visited' = visited \cup {map[j].ref}
                /\ hist' = [NoHist EXCEPT !.resolved = hist.resolved,
                                          !.start = heap[map[j].ref].position]
    /\ log' = << >>
    /\ UNCHANGED <<cells, blocks, heap, map, gridBounds, loading, delta, ticks,
                   aborted, frame, calls>>

IsHook(step) == step \in {"onUpdate", "onLateUpdate"}

\* scriptInstance && scriptInstance.onUpdate / .onLateUpdate: ball.js defines
\* no onLateUpdate
HookDefined(o, step) ==
    /\ o.scriptInstance # "none"
    /\ (step = "onUpdate" \/ o.scriptInstance = "player")

HookAbsent ==
    /\ IsHook(pc) /\ ~HookDefined(heap[cur], pc)
    /\ pc' = StepAfter(pc)
    /\ UNCHANGED <<sceneVars, heap, it, cur, delta, ticks, histVars, calls>>

\* a script or tooling call that changes something: counted, and bounded
Call == calls < MaxCalls /\ calls' = calls + 1

\* a hook call that returns; what it did is the conjunct the action adds
HookCall ==
    /\ IsHook(pc) /\ HookDefined(heap[cur], pc)
    /\ pc' = StepAfter(pc)
    /\ log' = Append(log, pc)
    /\ UNCHANGED <<it, cur, delta, ticks, visited, aborted, hist>>

HookReturns == HookCall /\ UNCHANGED <<sceneVars, heap, frame, calls>>

\* physics.setVelocity / applyForce from a hook
HookSetVelocity(v) ==
    /\ HookCall /\ Call
    /\ heap[cur].physics # None
    /\ heap' = [heap EXCEPT ![cur].physics = Some([Get(@) EXCEPT !.velocity = v])]
    /\ UNCHANGED <<sceneVars, frame>>

\* player.js lines 43-46: jump when grounded
HookJump ==
    /\ HookCall /\ Call
    /\ heap[cur].physics # None /\ heap[cur].isGrounded
    /\ heap' = [heap EXCEPT
                  ![cur].physics = Some([Get(@) EXCEPT !.velocity.y = JumpForce]),
                  ![cur].isGrounded = FALSE]
    /\ UNCHANGED <<sceneVars, frame>>

\* scene.destroy(id) from a hook: its own object or another one
HookDestroy(id) ==
    /\ HookCall /\ Call
    /\ destroy(id)
    /\ LET ref == get(map, id)
       IN  frame' = [frame EXCEPT
                       !.removed = @ \cup {ref},
                       !.skipped = IF ref \in visited THEN @ ELSE @ \cup {ref},
                       !.selfDestroyed = IF ref = cur /\ pc = "onUpdate"
                                         THEN @ \cup {ref} ELSE @]
    /\ UNCHANGED heap

\* scene.switchScene(url) from a hook (player.js:47-52): clear() runs at
\* once, inside the hook; the fetch and the load follow later
HookSwitchScene ==
    /\ HookCall /\ Call
    /\ heap[cur].scriptInstance = "player"
    /\ clear
    /\ loading' = loading \cup {SceneFetch}
    /\ frame' = [frame EXCEPT !.cleared = TRUE,
                               !.onDestroyed = @ \cup onDestroyCalls(map)]
    /\ UNCHANGED <<heap, gridBounds>>

\* scene.instantiate(data) from a hook
HookInstantiate(d) ==
    /\ HookCall /\ Call
    /\ instantiate(d)
    /\ frame' = noteInstantiate(d, TRUE)

\* a hook that throws: nothing in update() catches it, the frame ends there
HookThrows ==
    /\ IsHook(pc) /\ HookDefined(heap[cur], pc)
    /\ pc' = "idle" /\ cur' = 0
    /\ log' = Append(log, pc)
    /\ aborted' = TRUE
    /\ Call
    /\ UNCHANGED <<sceneVars, heap, it, delta, ticks, visited, hist, frame>>


\* a step of the loop body that no hook runs in: the conjunct the action adds
\* says what the step does to the game object
\* (a step that takes the blocks of the visited game object out of the grid
\* when it syncs them)
StepDoneUntracking(step) ==
    /\ pc = step
    /\ pc' = StepAfter(step)
    /\ cells' = IF step = "sync"
                THEN LET own == {heap[cur].blocks[n].grid :
                                   n \in 1..Len(heap[cur].blocks)}
                     IN  [k \in DOMAIN cells \ own |-> cells[k]]
                ELSE cells
    /\ UNCHANGED <<blocks, map, gridBounds, loading, it, cur, delta, ticks,
                   visited, aborted, frame, calls>>

StepDone(step) ==
    /\ pc = step
    /\ pc' = StepAfter(step)
    /\ UNCHANGED <<sceneVars, it, cur, delta, ticks, visited, aborted, frame,
                   calls>>

StepSkipped == UNCHANGED <<heap, log, hist>>

HasCollider(o) == o.collider # None /\ o.position # None

\* mutant: the flag taken from a fresh checkGrounded sample before integration
applyGravityFresh(o) ==
    IF HasCollider(o)
    THEN ~checkGrounded(cells, Get(o.position), Get(o.collider))
    ELSE ~o.isGrounded

\* line 658: the flag handed to updatePosition
applyGravityFlag(o) == ~o.isGrounded

\* lines 655-660
Integrate ==
    /\ StepDone("updatePosition")
    /\ LET o == heap[cur]
       IN  IF o.physics # None /\ o.position # None
           THEN LET g == applyGravityFlag(o)
                    r == updatePosition(Get(o.physics), Get(o.position), delta, g)
                IN  /\ heap' = [heap EXCEPT ![cur].physics = Some(r.physics),
                                            ![cur].position = Some(r.pos)]
                    /\ log' = Append(log, "updatePosition")
                    /\ hist' = [hist EXCEPT !.grav = Some(g)]
           ELSE StepSkipped

\* lines 667-670: the lastValidPosition handed to resolve
lastValidFor(o) ==
    IF o.lastValidPosition = None THEN Get(o.position)
    ELSE Get(o.lastValidPosition)

\* lines 677-682: velocity after the collision step
\* (a wall that absorbs the velocity on every axis)
stopAllAxes(ph, had, old, new) ==
    IF had THEN [ph EXCEPT !.velocity = Vec(0, 0, 0)] ELSE ph

stopBlockedAxes(ph, had, old, new) ==
    IF had
    THEN [ph EXCEPT !.velocity =
            Vec(IF new.x # old.x THEN 0 ELSE @.x,
                IF new.y # old.y THEN 0 ELSE @.y,
                IF new.z # old.z THEN 0 ELSE @.z)]
    ELSE ph

\* lines 663-682
Resolve ==
    /\ StepDone("resolve")
    /\ LET o == heap[cur]
       IN  IF HasCollider(o)
           THEN LET size == Get(o.collider)
                    oldPos == Get(o.position)
                    grounded == checkGrounded(cells, oldPos, size)
                    lvp == lastValidFor(o)
                    r == resolveCollision(cells, gridBounds, oldPos, lvp, size,
                                          grounded)
                IN  /\ heap' = [heap EXCEPT
                          ![cur].isGrounded = grounded,
                          ![cur].lastValidPosition = Some(lvp),
                          ![cur].position = Some(r.pos),
                          ![cur].physics =
                              IF @ = None THEN @
                              ELSE Some(stopBlockedAxes(Get(@), r.had, oldPos,
                                                        r.pos))]
                    /\ log' = Append(log, "resolve")
                    /\ hist' = [hist EXCEPT !.tentative = Some(oldPos),
                                            !.lvpIn = Some(lvp),
                                            !.sample = Some(grounded),
                                            !.had = Some(r.had)]
           ELSE StepSkipped

\* line 685
StoreLastValid ==
    /\ StepDone("lastValid")
    /\ LET o == heap[cur]
       IN  IF HasCollider(o)
           THEN /\ heap' = [heap EXCEPT ![cur].lastValidPosition = o.position]
                /\ log' = Append(log, "lastValid")
                /\ hist' = [hist EXCEPT !.resolved[cur] = o.position]
           ELSE StepSkipped

\* lines 689-703: the game object after the ground-snap step
\* (a snap that pulls the game object to the surface from any distance)
groundSnapAnyDistance(cs, o) ==
    LET size == Get(o.collider)
        p == Get(o.position)
        targetY == getGroundY(cs, p) + size.y \div 2
    IN  IF /\ o.physics # None
           /\ Get(o.physics).velocity.y <= 0
           /\ checkGrounded(cs, p, size)
        THEN [o EXCEPT !.position = Some([p EXCEPT !.y = targetY]),
                       !.physics = Some(stopVertical(Get(o.physics))),
                       !.isGrounded = TRUE]
        ELSE o

\* (a snap that does not look at the sign of velocity.y)
groundSnapWhileRising(cs, o) ==
    LET size == Get(o.collider)
        p == Get(o.position)
        targetY == getGroundY(cs, p) + size.y \div 2
    IN  IF /\ o.physics # None
           /\ checkGrounded(cs, p, size)
           /\ Abs(p.y - targetY) < SnapEps
        THEN [o EXCEPT !.position = Some([p EXCEPT !.y = targetY]),
                       !.physics = Some(stopVertical(Get(o.physics))),
                       !.isGrounded = TRUE]
        ELSE o

groundSnap(cs, o) ==
    LET size == Get(o.collider)
        p == Get(o.position)
        targetY == getGroundY(cs, p) + size.y \div 2
    IN  IF /\ o.physics # None
           /\ Get(o.physics).velocity.y <= 0
           /\ checkGrounded(cs, p, size)
           /\ Abs(p.y - targetY) < SnapEps
        THEN [o EXCEPT !.position = Some([p EXCEPT !.y = targetY]),
                       !.physics = Some(stopVertical(Get(o.physics))),
                       !.isGrounded = TRUE]
        ELSE o

\* lines 687-703
GroundSnap ==
    /\ StepDone("snap")
    /\ LET o == heap[cur]
       IN  IF HasCollider(o)
           THEN /\ heap' = [heap EXCEPT ![cur] = groundSnap(cells, o)]
                /\ log' = Append(log, "snap")
                /\ hist' = IF o.physics # None /\ Get(o.physics).velocity.y <= 0
                           THEN [hist EXCEPT !.sample =
                                   Some(checkGrounded(cells, Get(o.position),
                                                      Get(o.collider)))]
                           ELSE hist
           ELSE StepSkipped

\* lines 713-721: the blocks follow the game object
syncBlocks(o) ==
    [n \in 1..Len(o.blocks) |->
        LET off == IF o.blocks[n].offset = None THEN Vec(0, 0, 0)
                   ELSE Get(o.blocks[n].offset)
            p == Get(o.position)
        IN  [o.blocks[n] EXCEPT !.pos = Vec(p.x + off.x, p.y + off.y, p.z + off.z)]]

Sync ==
    /\ StepDone("sync")
    /\ LET o == heap[cur]
       IN  IF (o.physics # None \/ o.script # "none") /\ Len(o.blocks) > 0
           THEN /\ heap' = [heap EXCEPT ![cur].blocks = syncBlocks(o)]
                /\ log' = Append(log, "sync")
                /\ UNCHANGED hist
           ELSE StepSkipped

\* calls made from outside a frame (console, tooling)
Instantiate(d) ==
    /\ pc = "idle"
    /\ Call
    /\ instantiate(d)
    /\ frame' = noteInstantiate(d, FALSE)
    /\ UNCHANGED <<loopVars, log, visited, aborted, hist>>

Next ==
    \/ TickBegin
    \/ NextEntity
    \/ HookAbsent
    \/ HookReturns
    \/ \E v \in VelChoices : HookSetVelocity(v)
    \/ HookJump
    \/ \E id \in Ids \cup {GroundId} : HookDestroy(id)
    \/ \E d \in InstData : HookInstantiate(d)
    \/ HookThrows
    \/ Integrate
    \/ Resolve
    \/ StoreLastValid
    \/ GroundSnap
    \/ Sync
    \/ HookSwitchScene
    \/ \E l \in loading : ScriptLoaded(l)
    \/ SceneLoaded
    \/ \E d \in InstData : Instantiate(d)

Spec == Init /\ [][Next]_vars

\* the frame loop and the loaders, started on the scene file without a floor
SpecReload == InitReload /\ [][Next]_vars

\* ------------------------------------------------- a fall without a floor
\* scene files that hold a player and no block under it: the player's block
\* sits FallHeights cells above y = 0
FallHeights == {0, 1, 2}
FallScenes ==
    {<<[id |-> "a", script |-> "player", blocks |-> << <<1, gy, 0>> >>]>> :
        gy \in FallHeights}

InitFall == InitWith(FallScenes)

\* frames of a scene whose player gives no input: the hooks return without a
\* call, the loop integrates, resolves, snaps and syncs
FallTick == TickBeginUpTo(MaxFallTicks)

NextFall ==
    \/ FallTick
    \/ NextEntity
    \/ HookAbsent
    \/ HookReturns
    \/ Integrate
    \/ Resolve
    \/ StoreLastValid
    \/ GroundSnap
    \/ Sync
    \/ \E l \in loading : ScriptLoaded(l)

SpecFall == InitFall /\ [][NextFall]_vars

\* ------------------------------------------------------ overlapping loads
\* the scene files of the page: /scenes/default.json lists its game objects
\* inline, /scenes/testscene1.json names a file that holds them
LoadFiles ==
    [default |->
        [external |-> FALSE,
         gameObjects |->
            <<[id |-> GroundId, script |-> "none",
               blocks |-> << <<0, 0, 0>>, <<1, 0, 0>> >>],
              [id |-> "a", script |-> "player", blocks |-> << <<1, 1, 0>> >>]>>],
     testscene1 |->
        [external |-> TRUE,
         gameObjects |->
            <<[id |-> "b", script |-> "none", blocks |-> << <<2, 0, 2>> >>],
              [id |-> "c", script |-> "ball", blocks |-> << <<0, 1, 0>> >>]>>]]

Urls == DOMAIN LoadFiles

\* an await on a fetch: of a scene file by loadFromURL ("scene"), of the
\* scene file by the hot-reload poll ("reload"), of a game objects file
\* inside load ("objects"); n tells the calls apart
fetchOf(kind, url, n) == [id |-> url, script |-> kind, call |-> n]

\* the page after Scene.fromURL('/scenes/default.json'): the scripts are
\* still being imported
InitLoads == InitWith({LoadFiles["default"].gameObjects})

\* scene.switchScene(url), between frames: clear() at once, then the fetch
SwitchScene(url) ==
    /\ pc = "idle"
    /\ calls < MaxLoads /\ calls' = calls + 1
    /\ clear
    /\ loading' = loading \cup {fetchOf("scene", url, calls + 1)}
    /\ UNCHANGED <<heap, gridBounds, loopVars, histVars>>

\* the hot-reload poll found the scene file changed and fetches it
HotReloadPoll ==
    /\ pc = "idle"
    /\ calls < MaxLoads /\ calls' = calls + 1
    /\ loading' = loading \cup {fetchOf("reload", "default", calls + 1)}
    /\ UNCHANGED <<cells, blocks, map, heap, gridBounds, loopVars, histVars>>

\* a load() call that has not returned: its game objects file or one of its
\* script imports is outstanding
LoadPending(ls) == \E x \in ls : x.script \in {"objects", "player", "ball"}

\* loadScripts: one import per scripted game object in the Map, whichever
\* load registered it
loadScripts(st) ==
    {[id |-> st.heap[r].id, script |-> st.heap[r].script,
      call |-> Len(st.heap) + r] :
        r \in {q \in LiveRefs(st.map) : st.heap[q].script # "none"}}

\* Scene.load(sceneData), called once the fetch of the scene file resolved,
\* up to its first await: clear(), then either the fetch of the game objects
\* file or the registration of the inline game objects and loadScripts
LoadCalled(l) ==
    /\ pc = "idle"
    /\ l \in loading /\ l.script \in {"scene", "reload"}
    /\ LET f == LoadFiles[l.id]
           cleared == [heap |-> heap, map |-> EmptyMap, cells |-> EmptyCells,
                       blocks |-> {}, loading |-> loading \ {l}]
           st == IF f.external
                 THEN [cleared EXCEPT
                         !.loading = @ \cup {fetchOf("objects", l.id, l.call)}]
                 ELSE load(cleared, f.gameObjects)
       IN  /\ heap' = st.heap
           /\ map' = st.map
           /\ cells' = st.cells
           /\ blocks' = st.blocks
           /\ loading' = st.loading
    /\ frame' = [frame EXCEPT !.started = Append(@, l.id),
                               !.overlap = @ \/ LoadPending(loading)]
    /\ UNCHANGED <<gridBounds, loopVars, log, visited, aborted, hist, calls>>

\* Scene.load after the await of its game objects file: the game objects are
\* registered in the scene as it is by then, and loadScripts follows
ObjectsFetched(l) ==
    /\ pc = "idle"
    /\ l \in loading /\ l.script = "objects"
    /\ LET st == load([heap |-> heap, map |-> map, cells |-> cells,
                       blocks |-> blocks, loading |-> {}],
                      LoadFiles[l.id].gameObjects)
       IN  /\ heap' = st.heap
           /\ map' = st.map
           /\ cells' = st.cells
           /\ blocks' = st.blocks
           /\ loading' = (loading \ {l}) \cup loadScripts(st)
    /\ UNCHANGED <<gridBounds, loopVars, histVars, calls>>

NextLoads ==
    \/ \E url \in Urls : SwitchScene(url)
    \/ HotReloadPoll
    \/ \E l \in loading : LoadCalled(l)
    \/ \E l \in loading : ObjectsFetched(l)
    \/ \E l \in {x \in loading : x.script \in {"player", "ball"}} :
          ScriptLoaded(l)

SpecLoads == InitLoads /\ [][NextLoads]_vars

\* ------------------------------------------- resolveCollision on its own
\* grids handed to resolveCollision: a two-row floor with a wall along its
\* far edge, a single block, and no block at all
WallCells ==
    {<<0, 0, 0>>, <<1, 0, 0>>, <<2, 0, 0>>, <<0, 0, 1>>, <<1, 0, 1>>,
     <<2, 0, 1>>, <<2, 1, 0>>, <<2, 1, 1>>}
ResolveGrids ==
    {[k \in K |-> <<1, 1>>] : K \in {WallCells, {<<1, 1, 1>>}, {}}}
\* collider sizes: the player's, a full cell, one as wide as the grid and
\* one wider than the grid
ResolveSizes ==
    {PlayerSize, Vec(Scale, Scale, Scale),
     Vec(GridSize * Scale, Scale, GridSize * Scale),
     Vec(GridSize * Scale + Scale, Scale, GridSize * Scale + Scale)}
Far == 10 * Scale
\* tentative positions, from inside the grid to far outside it
Tentatives ==
    {Vec(x, y, z) : x \in {-Far, -26, 0, 8, 24, Far}, y \in {28, 30, 44},
                    z \in {-Far, -20, -12, 26}}
\* positions of the previous frame
LastValids == {Vec(0, 30, -20), Vec(0, 30, 0), Vec(-20, 50, -20)}

\* a game object that is about to be resolved: position holds the tentative
\* position, isGrounded the excludeGround argument
InitResolve ==
    /\ \E g \in ResolveGrids : cells = g
    /\ \E b \in {None, Some(calculateGridBounds)} : gridBounds = b
    /\ \E p \in Tentatives, last \in LastValids, size \in ResolveSizes,
          ex \in BOOLEAN :
          heap = <<[newGameObject([id |-> "a", script |-> "none"], << >>)
                      EXCEPT !.position = Some(p),
                             !.lastValidPosition = Some(last),
                             !.collider = Some(size),
                             !.isGrounded = ex]>>
    /\ map = <<[id |-> "a", ref |-> 1]>>
    /\ blocks = {} /\ loading = {} /\ calls = 0
    /\ pc = "resolve" /\ it = 1 /\ cur = 1 /\ delta = 1 /\ ticks = 1
    /\ log = << >> /\ visited = {1} /\ aborted = FALSE
    /\ hist = NoHist
    /\ frame = NoFrame

\* resolveCollision(scene, position, lastPosition, collider, excludeGround)
ResolveCall ==
    /\ pc = "resolve"
    /\ LET o == heap[cur]
           p == Get(o.position)
           last == Get(o.lastValidPosition)
           r == resolveCollision(cells, gridBounds, p, last, Get(o.collider),
                                 o.isGrounded)
       IN  /\ heap' = [heap EXCEPT ![cur].position = Some(r.pos)]
           /\ hist' = [hist EXCEPT !.tentative = Some(p), !.lvpIn = Some(last),
                                   !.had = Some(r.had)]
    /\ pc' = "lastValid"
    /\ log' = Append(log, "resolve")
    /\ UNCHANGED <<sceneVars, it, cur, delta, ticks, visited, aborted, frame,
                   calls>>

\* resolveCollision called again on the position the first call left, with
\* the same lastPosition, collider and excludeGround
ResolveAgain ==
    /\ pc = "lastValid"
    /\ LET o == heap[cur]
           q == Get(o.position)
           r == resolveCollision(cells, gridBounds, q, Get(hist.lvpIn),
                                 Get(o.collider), o.isGrounded)
       IN  /\ heap' = [heap EXCEPT ![cur].position = Some(r.pos)]
           /\ hist' = [hist EXCEPT !.resolved[cur] = Some(q),
                                   !.had = Some(r.had)]
    /\ pc' = "resolvedTwice"
    /\ log' = Append(log, "resolve")
    /\ UNCHANGED <<sceneVars, it, cur, delta, ticks, visited, aborted, frame,
                   calls>>

NextResolve == ResolveCall \/ ResolveAgain

SpecResolve == InitResolve /\ [][NextResolve]_vars


\* ------------------------------------------------ the grid and addBlock alone
\* cells handed to addBlock and clearCell: inside the grid, and outside it on
\* each side
GridCells ==
    {<<x, y, z>> : x \in {-1, 0, GridSize - 1, GridSize}, y \in {-1, 0, 1},
                   z \in {0, GridSize}}

\* an empty scene: no game object, no block
InitGrid ==
    /\ cells = EmptyCells /\ blocks = {}
    /\ heap = << >> /\ map = EmptyMap /\ loading = {}
    /\ gridBounds = Some(calculateGridBounds)
    /\ calls = 0
    /\ pc = "idle" /\ it = 0 /\ cur = 0 /\ delta = 0 /\ ticks = 0
    /\ log = << >> /\ visited = {} /\ aborted = FALSE
    /\ hist = NoHist
    /\ frame = NoFrame

\* Scene.addBlock(blockData, trackInGrid): the block goes to scene.blocks when
\* placeBlock returned one.  log holds the call and what it returned.
AddBlock(c, trackInGrid) ==
    /\ Call
    /\ LET b == <<0, calls + 1>>
           r == placeBlock(cells, c, b, trackInGrid)
       IN  /\ cells' = r.cells
           /\ blocks' = IF r.block # None THEN blocks \cup {b} ELSE blocks
           /\ log' = <<[op |-> "addBlock", cell |-> c, track |-> trackInGrid,
                        block |-> r.block]>>
    /\ UNCHANGED <<heap, map, gridBounds, loading, loopVars, visited, aborted,
                   hist, frame>>

\* Grid.clearCell(gridX, gridY, gridZ)
ClearCell(c) ==
    /\ Call
    /\ cells' = clearCell(cells, c)
    /\ log' = <<[op |-> "clearCell", cell |-> c, track |-> FALSE,
                 block |-> None]>>
    /\ UNCHANGED <<blocks, heap, map, gridBounds, loading, loopVars, visited,
                   aborted, hist, frame>>

\* positions getGroundY is asked about: centred in the two lowest cells of
\* two columns
GroundProbes ==
    {Vec(x, y, -Scale) : x \in {-Scale, Scale}, y \in {Half, Scale + Half}}

\* getGroundY(scene, position); log holds the position and the result
GroundQuery(p) ==
    /\ log' = <<[op |-> "getGroundY", cell |-> <<0, 0, 0>>, track |-> FALSE,
                 block |-> None, position |-> p,
                 groundY |-> getGroundY(cells, p)]>>
    /\ UNCHANGED <<sceneVars, heap, loopVars, visited, aborted, hist, frame,
                   calls>>

\* grid.gridToWorld(gridX, gridY, gridZ), and grid.worldToGrid on what it
\* returned; log holds both results
ConvertQuery(c) ==
    /\ LET w == gridToWorld(c[1], c[2], c[3])
       IN  log' = <<[op |-> "gridToWorld", cell |-> c, track |-> FALSE,
                     block |-> None, world |-> w, back |-> worldToGrid(w)]>>
    /\ UNCHANGED <<sceneVars, heap, loopVars, visited, aborted, hist, frame,
                   calls>>

NextGrid ==
    \/ \E c \in GridCells, t \in BOOLEAN : AddBlock(c, t)
    \/ \E c \in GridCells : ClearCell(c)
    \/ \E p \in GroundProbes : GroundQuery(p)
    \/ \E c \in GridCells : ConvertQuery(c)

SpecGrid == InitGrid /\ [][NextGrid]_vars

\* ------------------------------------------- VelocityPhysics on its own
\* One physics component and one position, driven by applyForce and
\* updatePosition calls.  The model's numbers carry no rounding error: a call
\* is made only where every square root and quotient it computes is whole.
PhysVelocities ==
    {Vec(0, 0, 0), Vec(1, 0, 0), Vec(0, 0, -1),
     Vec(MaxSpeed, 0, 0), Vec(-180, 0, 240), Vec(360, 0, -480),
     Vec(0, JumpForce, -2 * MaxSpeed)}
PhysForces == {<<0, 0>>, <<1, 0>>, <<0, -1>>, <<-3, 4>>}

WholeSpeed(v) ==
    LET r == horizontalSpeed(v) IN r * r = v.x * v.x + v.z * v.z
WholeQuot(a, b) == b # 0 /\ a % b = 0

\* the square root and the two quotients of clampSpeed are whole
WholeClamp(ph) ==
    LET v == ph.velocity
        q == v.x * v.x + v.z * v.z
    IN  \/ q <= ph.maxSpeed * ph.maxSpeed
        \/ /\ WholeSpeed(v)
           /\ WholeQuot(v.x * ph.maxSpeed, horizontalSpeed(v))
           /\ WholeQuot(v.z * ph.maxSpeed, horizontalSpeed(v))

WholeCall(ph, forceX, forceZ, dt) ==
    IF forceX # 0 \/ forceZ # 0
    THEN LET len == horizontalSpeed(Vec(forceX, 0, forceZ))
         IN  /\ WholeSpeed(Vec(forceX, 0, forceZ))
             /\ WholeQuot(forceX * ph.acceleration * dt, len)
             /\ WholeQuot(forceZ * ph.acceleration * dt, len)
             /\ WholeClamp([ph EXCEPT
                   !.velocity.x = @ + Quot(forceX * ph.acceleration * dt, len),
                   !.velocity.z = @ + Quot(forceZ * ph.acceleration * dt, len)])
    ELSE LET v == ph.velocity
             currentSpeed == horizontalSpeed(v)
             left == Max(0, currentSpeed - ph.friction * dt)
         IN  /\ WholeSpeed(v)
             /\ currentSpeed > 0 =>
                    /\ WholeQuot(v.x * left, currentSpeed)
                    /\ WholeQuot(v.z * left, currentSpeed)
             /\ WholeClamp(applyFriction(ph, dt))

InitPhysics ==
    /\ \E v \in PhysVelocities, g \in {0, Gravity} :
          heap = <<[newGameObject([id |-> "a", script |-> "none"], << >>)
                      EXCEPT !.position = Some(Vec(0, 0, 0)),
                             !.physics = Some([VelocityPhysics(g, MaxFall)
                                                EXCEPT !.velocity = v])]>>
    /\ map = <<[id |-> "a", ref |-> 1]>>
    /\ cells = EmptyCells /\ gridBounds = None
    /\ blocks = {} /\ loading = {} /\ calls = 0
    /\ pc = "physics" /\ it = 1 /\ cur = 1 /\ delta = 0 /\ ticks = 0
    /\ log = << >> /\ visited = {} /\ aborted = FALSE
    /\ hist = NoHist
    /\ frame = NoFrame

\* one call on the physics component; log keeps the calls made so far, each
\* with the velocity and the position it found
PhysicsCall(entry) ==
    /\ pc = "physics"
    /\ Call
    /\ log' = Append(log, entry)
    /\ UNCHANGED <<sceneVars, pc, it, cur, delta, ticks, visited, aborted,
                   hist, frame>>

\* physics.applyForce(forceX, forceZ, delta)
ApplyForce(forceX, forceZ, dt) ==
    /\ WholeCall(Get(heap[cur].physics), forceX, forceZ, dt)
    /\ PhysicsCall([op |-> "applyForce", force |-> <<forceX, forceZ>>,
                    dt |-> dt, applyGravity |-> FALSE,
                    velocity |-> Get(heap[cur].physics).velocity,
                    position |-> Get(heap[cur].position)])
    /\ heap' = [heap EXCEPT ![cur].physics =
                   Some(applyForce(Get(@), forceX, forceZ, dt))]

\* physics.updatePosition(gameObject.position, delta, applyGravity)
UpdatePosition(dt, applyGravity) ==
    /\ PhysicsCall([op |-> "updatePosition", force |-> <<0, 0>>,
                    dt |-> dt, applyGravity |-> applyGravity,
                    velocity |-> Get(heap[cur].physics).velocity,
                    position |-> Get(heap[cur].position)])
    /\ LET r == updatePosition(Get(heap[cur].physics), Get(heap[cur].position),
                               dt, applyGravity)
       IN  heap' = [heap EXCEPT ![cur].physics = Some(r.physics),
                                ![cur].position = Some(r.pos)]

NextPhysics ==
    \/ \E f \in PhysForces, dt \in DeltaSet : ApplyForce(f[1], f[2], dt)
    \/ \E dt \in DeltaSet, ag \in BOOLEAN : UpdatePosition(dt, ag)

SpecPhysics == InitPhysics /\ [][NextPhysics]_vars


\* ------------------------------------------------- coasting to a stop
\* horizontal speeds a game object coasts from: at and around the 0.01
\* epsilon, around one and two frames' friction, at maxSpeed and beyond
CoastSpeeds ==
    {1, 2, Friction, Friction + 1, Friction + 2, MaxSpeed, 2 * Friction,
     2 * Friction + 1, 3 * Friction, MaxSpeed + 2 * Friction, 4 * Friction,
     4 * Friction + 1, 10 * VScale}
\* on the axes, and along (3, -4) where the components stay whole
CoastVelocities ==
    {Vec(0, 0, 0)}
    \cup {Vec(sx * v, 0, 0) : sx \in {-1, 1}, v \in CoastSpeeds}
    \cup {Vec(0, 0, sz * v) : sz \in {-1, 1}, v \in CoastSpeeds}
    \cup {Vec(3 * m * Friction, 0, -4 * m * Friction) : m \in 1..2}

\* a game object in motion and a script that calls applyForce(0, 0, delta)
\* every frame with the same delta
InitCoast ==
    /\ \E v \in CoastVelocities :
          heap = <<[newGameObject([id |-> "a", script |-> "none"], << >>)
                      EXCEPT !.position = Some(Vec(0, 0, 0)),
                             !.physics = Some([VelocityPhysics(Gravity, MaxFall)
                                                EXCEPT !.velocity = v])]>>
    /\ \E dt \in DeltaSet : delta = dt
    /\ map = <<[id |-> "a", ref |-> 1]>>
    /\ cells = EmptyCells /\ gridBounds = None
    /\ blocks = {} /\ loading = {} /\ calls = 0
    /\ pc = "physics" /\ it = 1 /\ cur = 1 /\ ticks = 0
    /\ log = << >> /\ visited = {} /\ aborted = FALSE
    /\ hist = NoHist
    /\ frame = NoFrame

\* physics.applyForce(0, 0, delta); calls counts the calls that changed the
\* velocity
Coast ==
    /\ pc = "physics"
    /\ WholeCall(Get(heap[cur].physics), 0, 0, delta)
    /\ heap' = [heap EXCEPT ![cur].physics =
                   Some(applyForce(Get(@), 0, 0, delta))]
    /\ calls' = IF heap' # heap THEN calls + 1 ELSE calls
    /\ UNCHANGED <<sceneVars, loopVars, histVars>>

NextCoast == Coast

\* the script is called every frame
SpecCoast == InitCoast /\ [][NextCoast]_vars /\ WF_vars(Coast)

\* ----------------------------------------- checkGameObjectCollision on its own
\* Two game objects, each with or without a position and a collider, and one
\* call of checkGameObjectCollision on them.
PairPositions ==
    {None} \cup {Some(Vec(x, y, z)) : x \in {0, 18, Scale, -22},
                                      y \in {0, Scale, -19}, z \in {0, 17, 18}}
PairColliders == {None, Some(PlayerSize)}

InitPair ==
    /\ \E p1 \in {None, Some(Vec(0, 0, 0))}, p2 \in PairPositions,
          c1 \in PairColliders, c2 \in PairColliders :
          heap = <<[newGameObject([id |-> "a", script |-> "none"], << >>)
                      EXCEPT !.position = p1, !.collider = c1],
                   [newGameObject([id |-> "b", script |-> "none"], << >>)
                      EXCEPT !.position = p2, !.collider = c2]>>
    /\ map = <<[id |-> "a", ref |-> 1], [id |-> "b", ref |-> 2]>>
    /\ cells = EmptyCells /\ gridBounds = None
    /\ blocks = {} /\ loading = {} /\ calls = 0
    /\ pc = "pair" /\ it = 0 /\ cur = 0 /\ delta = 0 /\ ticks = 0
    /\ log = << >> /\ visited = {} /\ aborted = FALSE
    /\ hist = NoHist
    /\ frame = NoFrame

\* checkGameObjectCollision(obj1, obj2); log holds what it returned
PairQuery(r1, r2) ==
    /\ pc = "pair"
    /\ pc' = "paired"
    /\ log' = <<[op |-> "checkGameObjectCollision", first |-> r1, second |-> r2,
                 result |-> checkGameObjectCollision(heap[r1], heap[r2])]>>
    /\ UNCHANGED <<sceneVars, heap, it, cur, delta, ticks, visited, aborted,
                   hist, frame, calls>>

NextPair == \E r1 \in {1, 2}, r2 \in {1, 2} : r1 # r2 /\ PairQuery(r1, r2)

SpecPair == InitPair /\ [][NextPair]_vars


\* ================================================================== claims
StepIndex(step) == CHOOSE k \in 1..Len(Steps) : Steps[k] = step

\* C1: within one visit of a game object the steps performed are in the order
\* onUpdate, updatePosition, resolve, lastValidPosition update, ground-snap,
\* onLateUpdate, block sync; none runs twice and none runs after a later one.
C1_StepOrder ==
    /\ \A i, j \in 1..Len(log) : i < j => StepIndex(log[i]) < StepIndex(log[j])
    /\ \A i \in 1..Len(log) :
          pc \in {Steps[k] : k \in 1..Len(Steps)} =>
              StepIndex(log[i]) < StepIndex(pc)

\* a visit in which all seven steps ran
C1_Witness == pc = "next" /\ log = Steps

\* C2 (as claimed): the applyGravity flag of a game object with physics and
\* collider is the negation of checkGrounded at its position before integration.
C2_GravityFromFreshSample ==
    (pc = "resolve" /\ hist.grav # None /\ heap[cur].collider # None) =>
        Get(hist.grav) =
            ~checkGrounded(cells, Get(hist.start), Get(heap[cur].collider))

\* C2 (amended): the flag is the negation of the isGrounded field as it stands
\* when integration runs: what the previous frame's collision step or a script
\* left there (unset counts as not grounded).
C2_GravityFromStoredFlag ==
    (pc = "resolve" /\ hist.grav # None) =>
        Get(hist.grav) = ~heap[cur].isGrounded

\* integration ran for a game object whose stored flag says grounded while a
\* sample at its position says otherwise, or the reverse
C2_Witness ==
    /\ pc = "resolve" /\ hist.grav # None /\ heap[cur].collider # None
    /\ heap[cur].isGrounded #
           checkGrounded(cells, Get(hist.start), Get(heap[cur].collider))
    /\ ticks >= 2

\* C3: a hook that throws ends the frame only if no later game object is left
\* for the iterator, i.e. every later game object is still processed.
C3_ThrowIsolated ==
    [][(~aborted /\ aborted') => nextIndex(map, it) = 0]_vars


\* C4: the lastValidPosition handed to resolve is the position the game object
\* had after its previous resolve; in its first collision step, where there is
\* no previous resolve, it is the position it had before this frame's
\* integration, never the integrated, unresolved position.
C4_LastValidIsPreviousResolved ==
    (pc = "lastValid" /\ hist.lvpIn # None) =>
        Get(hist.lvpIn) = IF hist.resolved[cur] # None
                          THEN Get(hist.resolved[cur])
                          ELSE Get(hist.start)

\* C5: after the ground-snap step, isGrounded is the latest checkGrounded
\* result computed for the game object in this frame.
C5_GroundedIsLatestSample ==
    (pc = "onLateUpdate" /\ hist.sample # None) =>
        heap[cur].isGrounded = Get(hist.sample)

\* C6: the game objects a frame visits are the ones the Map held when the
\* frame began: one that a hook instantiates during the frame is not visited
\* in that frame.
C6_VisitedSetFixedAtTickStart == frame.spawned \cap visited = {}

\* the end of a frame's loop, every hook having returned
LoopEnd == pc = "next" /\ nextIndex(map, it) = 0 /\ ~aborted

\* C7: when a hook destroys another game object, (a) one not yet visited is
\* not visited in that frame, (b) the destroy changes nothing on any game
\* object already visited, and (c) the loop still visits every game object
\* the Map holds before it ends.
C7_DestroyOtherFromHook ==
    [][/\ frame'.skipped \cap visited' = {}
       /\ (frame'.removed \ frame.removed # {}) =>
              \A r \in visited : heap'[r] = heap[r]
       /\ (frame.removed # {} /\ LoopEnd /\ pc' = "idle") =>
              LiveRefs(map) \subseteq visited]_vars

\* a loop that ended after one hook destroyed a game object visited before
\* it and one not yet visited, and a game object after both was visited
C7_Witness ==
    /\ LoopEnd /\ it > 0 /\ map[it] # Tomb
    /\ frame.skipped # {} /\ frame.removed \ frame.skipped # {}
    /\ frame.selfDestroyed = {}
    /\ \A i \in 1..Len(map) : map[i] = Tomb => i < it

\* C8: when a game object's onUpdate destroys the game object itself, the
\* hook call returns and the visit goes on to the next step, the game object
\* is out of the Map and holds no grid cell and no block of the scene from
\* then on, and the loop still visits every game object the Map holds.
C8_SelfDestroyFromOnUpdate ==
    [][\A r \in frame'.selfDestroyed :
          /\ r \notin LiveRefs(map')
          /\ \A k \in DOMAIN cells' : cells'[k][1] # r
          /\ \A b \in blocks' : b[1] # r
          /\ r \notin frame.selfDestroyed =>
                 (~aborted' /\ pc' = "updatePosition" /\ cur' = r)
          /\ (LoopEnd /\ pc' = "idle") => LiveRefs(map) \subseteq visited]_vars

\* a loop that ended after a game object destroyed itself in onUpdate and a
\* later game object was visited
C8_Witness ==
    /\ LoopEnd /\ it > 0 /\ map[it] # Tomb
    /\ frame.selfDestroyed # {}
    /\ \A r \in frame.selfDestroyed : r # map[it].ref /\ r \in visited

\* C9: resolve slides per axis.  When the tentative position collides, the
\* candidate that takes only X from it collides, the Y-only and Z-only
\* candidates do not, and the slid position needs no bounds clamp, the
\* resolved position has X of lastValidPosition and the tentative Y and Z.
C9_SlidesAlongWall ==
    (pc = "lastValid" /\ hist.tentative # None /\ hist.lvpIn # None) =>
        LET o == heap[cur]
            p == Get(hist.tentative)
            last == Get(hist.lvpIn)
            size == Get(o.collider)
            ex == o.isGrounded
            slid == [x |-> last.x, y |-> p.y, z |-> p.z]
        IN  (/\ checkCollision(cells, p, size, ex)
             /\ checkCollision(cells, [last EXCEPT !.x = p.x], size, ex)
             /\ ~checkCollision(cells, [last EXCEPT !.y = p.y], size, ex)
             /\ ~checkCollision(cells, [last EXCEPT !.z = p.z], size, ex)
             /\ ~checkOutOfBounds(gridBounds, slid, size))
            => Get(o.position) = slid

\* a resolve that was blocked on X alone while the move also changed Z
C9_Witness ==
    /\ pc = "lastValid" /\ hist.tentative # None /\ hist.lvpIn # None
    /\ LET o == heap[cur]
           p == Get(hist.tentative)
           last == Get(hist.lvpIn)
           size == Get(o.collider)
           ex == o.isGrounded
       IN  /\ checkCollision(cells, p, size, ex)
           /\ checkCollision(cells, [last EXCEPT !.x = p.x], size, ex)
           /\ ~checkCollision(cells, [last EXCEPT !.y = p.y], size, ex)
           /\ ~checkCollision(cells, [last EXCEPT !.z = p.z], size, ex)
           /\ p.x # last.x /\ p.z # last.z
           /\ gridBounds # None
           /\ Get(o.position) = [x |-> last.x, y |-> p.y, z |-> p.z]

\* the collider fits between the grid bounds on X and Z
FitsGrid(size) ==
    /\ size.x <= Get(gridBounds).maxX - Get(gridBounds).minX
    /\ size.z <= Get(gridBounds).maxZ - Get(gridBounds).minZ

\* C10: with grid bounds set and a collider no wider than the grid, the
\* resolved position keeps the collider between the bounds on X and on Z,
\* wherever the tentative position was.
C10_ResolvedInsideBounds ==
    (/\ pc = "lastValid" /\ hist.tentative # None
     /\ gridBounds # None /\ FitsGrid(Get(heap[cur].collider))) =>
        LET p == Get(heap[cur].position)
            size == Get(heap[cur].collider)
            b == Get(gridBounds)
        IN  /\ p.x - size.x \div 2 >= b.minX /\ p.x + size.x \div 2 <= b.maxX
            /\ p.z - size.z \div 2 >= b.minZ /\ p.z + size.z \div 2 <= b.maxZ

\* a resolve of a tentative position far outside the grid on X and on Z
\* that left the collider against the bounds
C10_Witness ==
    /\ pc = "lastValid" /\ hist.tentative # None /\ gridBounds # None
    /\ FitsGrid(Get(heap[cur].collider))
    /\ Get(hist.tentative).x = Far /\ Get(hist.tentative).z = -Far
    /\ Get(heap[cur].position).x + Get(heap[cur].collider).x \div 2
           = Get(gridBounds).maxX
    /\ Get(heap[cur].position).z - Get(heap[cur].collider).z \div 2
           = Get(gridBounds).minZ

\* C11: the ground-snap step of a game object with collider and physics.  If
\* velocity.y <= 0, checkGrounded holds at the resolved position and the
\* position is less than 0.1 from surface + half height, then position.y
\* becomes surface + half height, velocity.y becomes 0 and isGrounded becomes
\* true; otherwise the step leaves position.y and velocity.y as they were.
C11_GroundSnap ==
    [][(pc = "snap" /\ pc' = "onLateUpdate" /\ HasCollider(heap[cur])
        /\ heap[cur].physics # None) =>
          LET o == heap[cur]
              n == heap'[cur]
              p == Get(o.position)
              vy == Get(o.physics).velocity.y
              half == Get(o.collider).y \div 2
              targetY == getGroundY(cells, p) + half
          IN  IF /\ vy <= 0
                 /\ Abs((p.y - half) - getGroundY(cells, p)) < GroundedEps
                 /\ Abs(p.y - targetY) < SnapEps
              THEN /\ Get(n.position).y = targetY
                   /\ Get(n.physics).velocity.y = 0
                   /\ n.isGrounded
              ELSE /\ Get(n.position).y = p.y
                   /\ Get(n.physics).velocity.y = vy]_vars

\* a snap step that moved a falling game object onto the surface
C11_Witness ==
    /\ pc = "onLateUpdate" /\ HasCollider(heap[cur]) /\ heap[cur].physics # None
    /\ heap[cur].lastValidPosition # None
    /\ Get(heap[cur].position).y # Get(heap[cur].lastValidPosition).y
    /\ heap[cur].isGrounded
    /\ Get(heap[cur].physics).velocity.y = 0

\* C12: in the collision step of a game object with collider and physics the
\* velocity component of an axis becomes 0 exactly when resolve moved the
\* position on that axis away from the tentative value; the component of an
\* axis resolve did not move keeps its value, and so do all three when
\* resolve corrected nothing.
C12_StopsExactlyBlockedAxes ==
    [][(pc = "resolve" /\ pc' = "lastValid" /\ HasCollider(heap[cur])
        /\ heap[cur].physics # None) =>
          LET old == Get(heap[cur].position)
              new == Get(heap'[cur].position)
              v == Get(heap[cur].physics).velocity
              w == Get(heap'[cur].physics).velocity
          IN  /\ w.x = IF new.x # old.x THEN 0 ELSE v.x
              /\ w.y = IF new.y # old.y THEN 0 ELSE v.y
              /\ w.z = IF new.z # old.z THEN 0 ELSE v.z]_vars

\* a collision step that moved one axis back and stopped it, while another
\* axis kept its tentative value and its non-zero velocity
C12_Witness ==
    /\ pc = "lastValid" /\ hist.tentative # None /\ heap[cur].physics # None
    /\ LET t == Get(hist.tentative)
           p == Get(heap[cur].position)
           v == Get(heap[cur].physics).velocity
       IN  /\ p.x # t.x /\ v.x = 0
           /\ \/ p.y = t.y /\ v.y # 0
              \/ p.z = t.z /\ v.z # 0

FirstOutputClear ==
    LET q == Get(hist.resolved[cur])
        size == Get(heap[cur].collider)
    IN  /\ ~checkCollision(cells, q, size, heap[cur].isGrounded)
        /\ ~checkOutOfBounds(gridBounds, q, size)

LastOp == log[Len(log)]
\* gx and gz in [0, size) and gy >= 0
CellInGrid(c) ==
    /\ 0 <= c[1] /\ c[1] < GridSize /\ 0 <= c[2]
    /\ 0 <= c[3] /\ c[3] < GridSize

\* C14 (as claimed): after any sequence of placements and removals, a cell is
\* occupied right after a successful placement on it and free right after
\* clearCell on it.
C14_OccupiedAfterPlacement ==
    log # << >> =>
        /\ (LastOp.op = "addBlock" /\ LastOp.block # None) =>
               isOccupied(cells, LastOp.cell[1], LastOp.cell[2], LastOp.cell[3])
        /\ LastOp.op = "clearCell" =>
               ~isOccupied(cells, LastOp.cell[1], LastOp.cell[2], LastOp.cell[3])

\* C14 (amended): the cell is occupied right after a successful placement
\* that tracks the block in the grid, and free right after clearCell; a
\* placement with trackInGrid false leaves the cell's occupancy as it was.
C14_OccupiedAfterTrackedPlacement ==
    [][(log' # << >> /\ calls' # calls) =>
          LET op == log'[Len(log')]
              c == op.cell
          IN  /\ (op.op = "addBlock" /\ op.block # None /\ op.track) =>
                     isOccupied(cells', c[1], c[2], c[3])
              /\ (op.op = "addBlock" /\ op.block # None /\ ~op.track) =>
                     (isOccupied(cells', c[1], c[2], c[3])
                        <=> isOccupied(cells, c[1], c[2], c[3]))
              /\ op.op = "clearCell" =>
                     ~isOccupied(cells', c[1], c[2], c[3])]_vars

\* a tracked placement, the last of a run of calls, whose block holds the cell
C14_Witness ==
    /\ Len(log) = 1 /\ LastOp.op = "addBlock" /\ LastOp.block # None
    /\ LastOp.track /\ calls = MaxCalls
    /\ cells[LastOp.cell] = <<0, MaxCalls>>

\* C15: addBlock on a cell with gx or gz outside [0, size) or gy < 0 returns
\* null and leaves the cells and the scene's block list as they were.
C15_OutOfBoundsPlacementRejected ==
    [][(log' # << >> /\ calls' # calls /\ log'[Len(log')].op = "addBlock"
        /\ ~CellInGrid(log'[Len(log')].cell)) =>
          /\ log'[Len(log')].block = None
          /\ cells' = cells
          /\ blocks' = blocks]_vars

\* a rejected placement below the grid after an accepted one
C15_Witness ==
    /\ Len(log) = 1 /\ LastOp.op = "addBlock" /\ LastOp.cell[2] < 0
    /\ LastOp.block = None /\ blocks # {} /\ cells # EmptyCells

\* a gameObjects array without its j-th entry
RemoveAt(objs, j) ==
    [i \in 1..(Len(objs) - 1) |-> IF i < j THEN objs[i] ELSE objs[i + 1]]

\* C16: registering a game object under an id the Map already holds is
\* rejected.  load of a file in which an entry repeats an earlier id gives
\* what load gives without that entry; an instantiate call with a held id
\* changes no game object, no Map entry, no cell and no block of the scene.
C16_DuplicateIdRejected ==
    /\ \A scene \in Scenes : \A j \in 1..Len(scene) :
          (\E i \in 1..(j - 1) : scene[i].id = scene[j].id) =>
              load(EmptyScene, scene) = load(EmptyScene, RemoveAt(scene, j))
    /\ [][(frame'.rejected \ frame.rejected # {}) =>
             /\ heap' = heap /\ map' = map
             /\ cells' = cells /\ blocks' = blocks]_vars

\* a scene loaded from a file that repeats an id, in which a hook's
\* instantiate call was then rejected
C16_Witness ==
    /\ frame.rejected # {} /\ pc # "idle"
    /\ \E r \in DOMAIN heap : heap[r].id = "c"
    /\ heap[2].id = "a" /\ heap[2].script = "player"
    /\ ~isOccupied(cells, 2, 0, 0)

\* C17: right after destroy(id) of a game object the Map held, the id is out
\* of the Map, none of its blocks is in the scene's block list and no grid
\* cell holds one of its blocks.
C17_DestroyRemovesEverything ==
    [][\A r \in frame'.removed \ frame.removed :
          /\ ~has(map', heap[r].id)
          /\ r \notin LiveRefs(map')
          /\ blocks' \cap blockIds(r, heap[r]) = {}
          /\ \A k \in DOMAIN cells' : cells'[k] \notin blockIds(r, heap[r])]_vars

\* a destroyed static game object whose blocks held grid cells
C17_Witness ==
    \E r \in frame.removed :
        /\ heap[r].script = "none" /\ Len(heap[r].blocks) > 1
        /\ \A n \in 1..Len(heap[r].blocks) :
              ~isOccupied(cells, heap[r].blocks[n].grid[1],
                          heap[r].blocks[n].grid[2], heap[r].blocks[n].grid[3])

\* where placeBlock put the n-th block of game object o when it was attached
AttachPos(o, n) ==
    LET c == o.blocks[n].grid
        w == gridToWorld(c[1], c[2], c[3])
    IN  [w EXCEPT !.y = w.y + Half]

\* C18: after the block sync of a game object with physics or a script, each
\* of its blocks is at the game object's position plus the offset the block
\* had from the anchor (the first block) when it was attached, whether load
\* or instantiate created the game object.
C18_BlocksKeepOffsets ==
    (pc = "next" /\ cur # 0 /\ log # << >> /\ log[Len(log)] = "sync") =>
        LET o == heap[cur]
            p == Get(o.position)
        IN  \A n \in 1..Len(o.blocks) :
                o.blocks[n].pos =
                    Vec(p.x + AttachPos(o, n).x - AttachPos(o, 1).x,
                        p.y + AttachPos(o, n).y - AttachPos(o, 1).y,
                        p.z + AttachPos(o, n).z - AttachPos(o, 1).z)

\* C19: no step of loading or unloading a scene runs between the start and
\* the end of a frame's loop over the game objects, also when a hook asks
\* for the scene switch.
C19_NoSceneStepInsideTick == ~frame.cleared

\* C20: a game object without a position (no block was placed for it) is
\* skipped by the loop: no hook of it is called and no integration,
\* collision or block-sync step runs for it.
C20_PositionlessSkipped ==
    (cur # 0 /\ heap[cur].position = None) => log = << >>

\* C21: a game object whose script defines onDestroy and that destroy(id)
\* removed from the scene has had its onDestroy hook invoked.
C21_OnDestroyOnRemoval ==
    \A r \in frame.removed :
        heap[r].scriptInstance = "player" => r \in frame.onDestroyed

\* C22: when the loop has run the steps of a scripted game object that
\* overlaps another game object of the scene, a collision event hook
\* (onCollisionEnter in the first such tick, onCollisionStay afterwards) was
\* invoked during the visit.
C22_CollisionHooksInvoked ==
    (/\ pc = "sync" /\ cur # 0
     /\ heap[cur].scriptInstance # "none"
     /\ \E r \in LiveRefs(map) \ {cur} :
           checkGameObjectCollision(heap[cur], heap[r]).colliding)
    => \E i \in DOMAIN log : log[i] \in {"onCollisionEnter", "onCollisionStay"}

\* C23 (as claimed): no game object has its onInit invoked more than once,
\* and a game object whose onUpdate or onLateUpdate was invoked in the
\* current visit has had its onInit invoked.
C23_InitOnceBeforeHooks ==
    /\ \A r \in DOMAIN heap : heap[r].inits <= 1
    /\ (cur # 0 /\ \E i \in DOMAIN log : IsHook(log[i])) => heap[cur].inits >= 1

\* the latest call on the physics component, and the component after it
LastCall == log[Len(log)]
PhysNow == Get(heap[1].physics)
SpeedSq(v) == v.x * v.x + v.z * v.z

\* C24: a call applyForce(0, 0, dt) leaves the horizontal speed no greater
\* than it found it, strictly smaller when it was not zero, and reverses the
\* sign of neither velocity.x nor velocity.z.
C24_FrictionSlowsWithoutReversal ==
    (pc = "physics" /\ log # << >> /\ LastCall.op = "applyForce"
       /\ LastCall.force = <<0, 0>>)
    => LET v == LastCall.velocity
           w == PhysNow.velocity
       IN  /\ SpeedSq(w) <= SpeedSq(v)
           /\ SpeedSq(v) > 0 => SpeedSq(w) < SpeedSq(v)
           /\ v.x * w.x >= 0
           /\ v.z * w.z >= 0

\* friction took a moving component to rest in one call, and left another
\* one moving in its old direction
C24_Witness ==
    /\ pc = "physics" /\ Len(log) = 2
    /\ \A i \in 1..2 : log[i].op = "applyForce" /\ log[i].force = <<0, 0>>
    /\ log[1].velocity = Vec(-180, 0, 240)
    /\ log[2].velocity.x < 0 /\ log[2].velocity.z > 0
    /\ PhysNow.velocity = Vec(0, 0, 0)

\* C25: after every applyForce call the horizontal speed is at most maxSpeed.
C25_SpeedAtMostMax ==
    (pc = "physics" /\ log # << >> /\ LastCall.op = "applyForce")
    => SpeedSq(PhysNow.velocity) <= PhysNow.maxSpeed * PhysNow.maxSpeed

\* a call that found the component above maxSpeed, off the axes, and one that
\* accelerated it beyond maxSpeed: both left it at maxSpeed
C25_Witness ==
    /\ pc = "physics" /\ Len(log) = 2
    /\ log[1].op = "applyForce" /\ log[1].force = <<0, 0>>
    /\ SpeedSq(log[1].velocity) > MaxSpeed * MaxSpeed
    /\ log[1].velocity.x # 0 /\ log[1].velocity.z # 0
    /\ SpeedSq(log[2].velocity) = MaxSpeed * MaxSpeed
    /\ log[2].op = "applyForce" /\ log[2].force # <<0, 0>>
    /\ SpeedSq(PhysNow.velocity) = MaxSpeed * MaxSpeed

\* total delta of the calls made so far
RECURSIVE SumDt(_)
SumDt(l) == IF l = << >> THEN 0 ELSE Head(l).dt + SumDt(Tail(l))

\* C26: updatePosition changes velocity.y only when gravity is nonzero and
\* applyGravity is true, then to max(velocity.y + gravity*dt, maxFallSpeed);
\* it always adds velocity*dt to the position on the three axes.  Free fall
\* from rest for a total time t leaves velocity.y = gravity*t, until the
\* terminal fall speed.
C26_GravityThenIntegration ==
    (pc = "physics" /\ log # << >> /\ LastCall.op = "updatePosition")
    => LET v == LastCall.velocity
           p == LastCall.position
           w == PhysNow.velocity
           q == Get(heap[1].position)
           dt == LastCall.dt
       IN  /\ w.x = v.x /\ w.z = v.z
           /\ w.y = IF PhysNow.gravity # 0 /\ LastCall.applyGravity
                    THEN Max(v.y + PhysNow.gravity * dt, PhysNow.maxFallSpeed)
                    ELSE v.y
           /\ q = Vec(p.x + w.x * dt, p.y + w.y * dt, p.z + w.z * dt)
           /\ (/\ \A i \in DOMAIN log :
                     log[i].op = "updatePosition" /\ log[i].applyGravity
               /\ log[1].velocity.y = 0
               /\ PhysNow.gravity # 0)
              => w.y = Max(PhysNow.gravity * SumDt(log), PhysNow.maxFallSpeed)

\* free fall from rest that reached the terminal fall speed while the
\* component moved sideways, after a step that was still below it
C26_Witness ==
    /\ pc = "physics" /\ Len(log) = 3
    /\ \A i \in DOMAIN log : log[i].op = "updatePosition" /\ log[i].applyGravity
    /\ log[1].velocity.y = 0 /\ log[1].velocity.x # 0
    /\ PhysNow.gravity # 0
    /\ log[3].velocity.y > PhysNow.maxFallSpeed
    /\ PhysNow.velocity.y = PhysNow.maxFallSpeed
    /\ PhysNow.gravity * SumDt(log) < PhysNow.maxFallSpeed

\* C27: getGroundY(position) is the top face y + 1 of the highest occupied
\* cell y of the position's column with 0 <= y <= min(floor(position.y), 10),
\* and 0 when there is none.
C27_GroundAtOrBelowCentreCell ==
    (log # << >> /\ LastOp.op = "getGroundY")
    => LET p == LastOp.position
           gridX == Floor(p.x + centerOffset * Scale + Half)
           gridZ == Floor(p.z + centerOffset * Scale + Half)
           top == Min(Floor(p.y), ScanTop)
           ys == {y \in 0..top : isOccupied(cells, gridX, y, gridZ)}
       IN  LastOp.groundY = IF ys = {} THEN 0
                            ELSE (CHOOSE y \in ys : \A w \in ys : w <= y) * Scale
                                 + Scale

\* C28: for two game objects that have positions, checkGameObjectCollision
\* reports colliding exactly when on each of the three axes the distance of
\* the centres is below the sum of the two half-extents, and reports on each
\* axis the penetration: that sum minus the distance.  (Compared doubled, so
\* that no half is taken.)
C28_OverlapOnAllAxes ==
    (pc = "paired" /\ heap[1].position # None /\ heap[2].position # None)
    => LET a == heap[log[1].first]
           b == heap[log[1].second]
           r == log[1].result
           sum == [x |-> extentOf(a).x + extentOf(b).x,
                   y |-> extentOf(a).y + extentOf(b).y,
                   z |-> extentOf(a).z + extentOf(b).z]
           d == [x |-> Abs(Get(a.position).x - Get(b.position).x),
                 y |-> Abs(Get(a.position).y - Get(b.position).y),
                 z |-> Abs(Get(a.position).z - Get(b.position).z)]
       IN  /\ r.colliding <=> (2 * d.x < sum.x /\ 2 * d.y < sum.y /\ 2 * d.z < sum.z)
           /\ 2 * r.penetration.x = sum.x - 2 * d.x
           /\ 2 * r.penetration.y = sum.y - 2 * d.y
           /\ 2 * r.penetration.z = sum.z - 2 * d.z

\* extents 1 x 1 x 1 at (0, 0, 0) and (0.9, 0, 0): colliding, penetration 0.1
\* on X and 1.0 on Y and Z
C28_Witness ==
    /\ pc = "paired"
    /\ heap[1].collider = None /\ heap[2].collider = None
    /\ heap[1].position = Some(Vec(0, 0, 0))
    /\ heap[2].position = Some(Vec(18, 0, 0))
    /\ log[1].result = [colliding |-> TRUE, penetration |-> Vec(2, Scale, Scale)]

\* C29: for a cell with 0 <= gx, gz < size and gy >= 0, worldToGrid of the
\* world position gridToWorld returns for the cell is the cell again.
C29_GridRoundTrip ==
    (log # << >> /\ LastOp.op = "gridToWorld" /\ CellInGrid(LastOp.cell))
    => LastOp.back = LastOp.cell

\* the far corner cell of the second layer: its world position lies off the
\* origin on every axis, and the conversion back finds the cell
C29_Witness ==
    /\ log # << >> /\ LastOp.op = "gridToWorld"
    /\ LastOp.cell = <<GridSize - 1, 1, 0>>
    /\ LastOp.world = Vec((GridSize - 1 - centerOffset) * Scale, Scale,
                          -centerOffset * Scale)
    /\ LastOp.world.x > 0 /\ LastOp.world.z < 0
    /\ LastOp.back = <<GridSize - 1, 1, 0>>

\* C30: the occupied cells change only in a placement or removal operation:
\* a destroy, instantiate or clear call made by a hook or between frames, or
\* a scene load.  The start of a frame, the iterator, and the integration,
\* collision, last-valid, ground-snap and block-sync steps leave them as
\* they are.
C30_CellsChangeOnlyByPlacement ==
    [][/\ (cells' # cells) =>
            /\ IsHook(pc) \/ pc = "idle"
            /\ calls' = calls + 1 \/ SceneFetch \in loading \ loading'
       /\ (pc \in {"next", "updatePosition", "resolve", "lastValid", "snap",
                    "sync"} \/ pc' = "next")
            => cells' = cells]_vars

\* a visit that integrated, corrected a collision against the occupied
\* cells, snapped and synced the blocks of a game object that moved
C30_Witness ==
    /\ pc = "next" /\ cur # 0
    /\ log = Steps
    /\ hist.had = Some(TRUE)
    /\ heap[cur].position # hist.start
    /\ heap[cur].isGrounded
    /\ heap[cur].blocks[1].pos = Get(heap[cur].position)
    /\ DOMAIN cells # {}

\* C31: the collision step never leaves a game object inside a block.  When
\* lastValidPosition does not collide before the resolve, the position the
\* resolve leaves does not collide either (same collider, same exclude flag),
\* for every tentative position.
C31_NeverLeftInsideBlock ==
    (pc = "lastValid" /\ hist.tentative # None /\ hist.lvpIn # None) =>
        LET o == heap[cur]
            size == Get(o.collider)
            ex == o.isGrounded
        IN  ~checkCollision(cells, Get(hist.lvpIn), size, ex)
                => ~checkCollision(cells, Get(o.position), size, ex)

\* the grid column under position p holds no block
EmptyColumn(cs, p) ==
    LET gridX == Floor(p.x + centerOffset * Scale + Half)
        gridZ == Floor(p.z + centerOffset * Scale + Half)
    IN  \A k \in DOMAIN cs : ~(k[1] = gridX /\ k[3] = gridZ)

\* C32: a game object under gravity over a column that holds no block never
\* falls through the fallback floor at y = 0: its feet (position.y minus half
\* the collider height) never go more than 0.2 below 0.
C32_NeverThroughFallbackFloor ==
    \A r \in 1..Len(heap) :
        LET o == heap[r]
        IN  (/\ HasCollider(o) /\ o.physics # None
             /\ Get(o.physics).gravity # 0
             /\ EmptyColumn(cells, Get(o.position)))
            => Get(o.position).y - Get(o.collider).y \div 2 >= -GroundedEps

\* C33: after destroy(id) returned, no hook of that game object is invoked
\* and no integration, collision, last-valid, ground-snap or block-sync step
\* runs on it, the rest of the frame in which its own onUpdate destroyed it
\* included.
C33_NothingRunsAfterDestroy ==
    [][(cur # 0 /\ Len(log') > Len(log)) => cur \notin frame.removed]_vars

\* C34: destroy(id) leaves occupied every grid cell whose occupant is a block
\* of another game object that still exists, whether the destroyed game
\* object was scripted (its blocks untracked) or shared a cell with the other.
C34_DestroyKeepsOthersCells ==
    [][\A r \in frame'.removed \ frame.removed :
          \A k \in DOMAIN cells :
              (cells[k][1] # r /\ cells[k][1] \in LiveRefs(map'))
                  => (k \in DOMAIN cells' /\ cells'[k] = cells[k])]_vars

\* what the scene holds of a game object: id, script and the cells of its
\* blocks
Held(r) ==
    [id |-> heap[r].id, script |-> heap[r].script,
     blocks |-> [n \in 1..Len(heap[r].blocks) |-> heap[r].blocks[n].grid]]

\* the scene holds the game objects of the file at url and nothing else
HoldsExactly(url) ==
    LET objs == LoadFiles[url].gameObjects
    IN  /\ {Held(r) : r \in LiveRefs(map)} = {objs[i] : i \in 1..Len(objs)}
        /\ blocks = UNION {blockIds(r, heap[r]) : r \in LiveRefs(map)}
        /\ \A k \in DOMAIN cells : cells[k][1] \in LiveRefs(map)

\* C35: when two load calls overlapped in time, then once both have
\* completed the scene holds exactly the game objects of the scene file whose
\* load started last, and no game object or block of the other.
C35_LastLoadWins ==
    (/\ frame.overlap /\ loading = {}
     /\ Len(frame.started) >= 2)
        => HoldsExactly(frame.started[Len(frame.started)])

\* C36: resolve never modifies lastValidPosition or the occupied cells, and
\* before the bounds clamp each axis of the resulting position equals the
\* tentative value or lastValidPosition's value on that axis; the clamp
\* alone, on X and Z, can move it off these.
C36_ResolveFrame ==
    [][(pc = "resolve" /\ pc' = "lastValid") =>
          LET o == heap[cur]
              p == Get(o.position)
              last == Get(o.lastValidPosition)
              size == Get(o.collider)
              slid == slideAxes(cells, p, last, size, o.isGrounded)
              q == Get(heap'[cur].position)
              oob == checkOutOfBounds(gridBounds, slid, size)
          IN  /\ heap'[cur].lastValidPosition = o.lastValidPosition
              /\ cells' = cells /\ blocks' = blocks
              /\ slid.x \in {p.x, last.x}
              /\ slid.y \in {p.y, last.y}
              /\ slid.z \in {p.z, last.z}
              /\ q.y = slid.y
              /\ ~oob => q = slid
              /\ oob => q = clampToBounds(gridBounds, slid, size)]_vars

\* a resolve that reverted Y to lastValidPosition, kept the tentative X and
\* left lastValidPosition and the cells as they were
C36_Witness ==
    /\ pc = "lastValid" /\ hist.tentative # None /\ hist.lvpIn # None
    /\ hist.had = Some(TRUE) /\ DOMAIN cells # {}
    /\ heap[cur].lastValidPosition = hist.lvpIn
    /\ LET q == Get(heap[cur].position)
           p == Get(hist.tentative)
           last == Get(hist.lvpIn)
       IN  /\ q.y = last.y /\ q.y # p.y
           /\ q.x = p.x /\ q.x # last.x

\* C37: the ground-snap step never changes position.x or position.z, changes
\* position.y by less than 0.1, and in a frame where velocity.y > 0 after
\* the collision step it neither snaps the position nor zeroes velocity.y.
C37_SnapIsSmallAndOnlyWhenFalling ==
    [][(pc = "snap" /\ pc' = "onLateUpdate" /\ HasCollider(heap[cur])) =>
          LET o == heap[cur]
              p == Get(o.position)
              q == Get(heap'[cur].position)
          IN  /\ q.x = p.x /\ q.z = p.z
              /\ Abs(q.y - p.y) < SnapEps
              /\ (o.physics # None /\ Get(o.physics).velocity.y > 0) =>
                    /\ q = p
                    /\ heap'[cur].physics = o.physics]_vars

\* a ground-snap step that left a rising game object alone although it was
\* grounded and within the snap distance of the surface
C37_Witness ==
    /\ pc = "onLateUpdate" /\ cur # 0 /\ Len(log) > 0
    /\ log[Len(log)] = "snap"
    /\ LET o == heap[cur]
       IN  /\ HasCollider(o) /\ o.physics # None
           /\ Get(o.physics).velocity.y > 0
           /\ checkGrounded(cells, Get(o.position), Get(o.collider))
           /\ Abs(Get(o.position).y
                    - (getGroundY(cells, Get(o.position))
                         + Get(o.collider).y \div 2)) < SnapEps

\* C38: with zero input, friction > 0 and a fixed delta > 0, repeated
\* applyForce(0, 0, delta) brings the horizontal velocity to exactly (0, 0)
\* after finitely many calls, and it stays (0, 0) from then on.
C38_CoastsToRest ==
    <>[](/\ Get(heap[1].physics).velocity.x = 0
         /\ Get(heap[1].physics).velocity.z = 0)

\* a game object at rest after three calls or more changed its velocity
C38_Witness ==
    /\ pc = "physics" /\ delta > 0 /\ calls >= 3
    /\ Get(heap[1].physics).friction > 0
    /\ Get(heap[1].physics).velocity.x = 0
    /\ Get(heap[1].physics).velocity.z = 0
====
